---- MODULE Spec2Model ----
(***************************************************************************)
(* The dota2api harvesting pipeline (src/bin/dota2api/_interface.py):      *)
(* one feed poller (_get_matches) and num_oapi_threads fetchers            *)
(* (_get_matches_info) run as coroutines of one asyncio event loop; the    *)
(* consumer (get_match) and close() run on other threads.                  *)
(*                                                                         *)
(* A coroutine runs from one await to the next without interruption by     *)
(* another coroutine, so every coroutine action is one such segment.  A    *)
(* blocking call made by a coroutine (threading.Semaphore.acquire,         *)
(* queue.Queue.put) keeps the event loop's thread: loop_holder names the   *)
(* coroutine that holds it, and no other coroutine steps meanwhile.        *)
(*                                                                         *)
(* logging.status is not defined in these files; it is taken to be         *)
(* installed the way src/net/net.py installs it (lines 244-251), a call    *)
(* that logs and returns.  Logging calls change no state and are left out, *)
(* and so are the heartbeat timers, which only drive logging.              *)
(*                                                                         *)
(* The relational store (src/bin/dota2api/_database.py) is a Database      *)
(* object used by plain threads: the two files it may write, the           *)
(* ":memory:" database, the live connection with its foreign-key setting,  *)
(* and self.lock.  SQLite is modelled by what its statements do on the two *)
(* tables: INSERT OR REPLACE deletes the row with the same primary key     *)
(* first, and a deleted match_info row takes its hero_picks rows with it   *)
(* only on a connection with foreign keys on.                              *)
(***************************************************************************)
EXTENDS Integers, Sequences, FiniteSets, TLC

VARIABLES
    retry,              \* self.retry (constructor argument retry_on_error)
    scope,              \* the coroutines that run: all, or one side of matches_queue
    exit,               \* self.exit
    processes,          \* value of the Semaphore self.processes
    close_pc,           \* position of the thread that calls close()
    close_i,            \* number of acquires close() has completed
    seq_from,           \* self.seq_from, relative to the bootstrap value
    polls,              \* number of feed batches taken so far (bounds the run)
    dota_api_timers,    \* the mutable entries of self.dota_api_timers
    open_api_timers,    \* the mutable entries of self.open_api_timers
    dotaapi_lock,       \* holder of self.dotaapi_lock
    oapi_lock,          \* holder of self.oapi_lock
    dapi_inflight,      \* tasks with a feed request in the executor
    oapi_inflight,      \* tasks with an enrichment request in the executor
    matches_queue,      \* self.matches_queue
    match_info_queue,   \* self.match_info_queue
    pc,                 \* position of each worker coroutine
    tries,              \* attempts of the current for-loop, per worker
    exc,                \* exception held by the catch-all handler, per worker
    num_results,        \* poller: len(data["result"]["matches"]) of the last 200
    valid_matches,      \* poller: the IDs the enqueue loop has still to put
    match_id,           \* fetcher: the ID dequeued
    match,              \* fetcher: the parsed record waiting to be put
    loop_holder,        \* coroutine blocking the event loop's thread
    now,                \* time.time(), in tenths of a second
    wake,               \* end of each worker's pacing sleep
    last_dispatch,      \* per endpoint: dispatch time of the last request
    files,              \* Database: the files database_dir and database_dir.mem
    memory,             \* Database: the ":memory:" database of the connection
    db,                 \* Database: self.db, the live connection
    in_memory,          \* Database: self.in_memory
    mem_only,           \* Database: self.mem_only
    lock,               \* Database: holder of self.lock
    db_pc,              \* Database: position of each calling thread
    overwrite_original, \* Database: argument of a pending work_from_file
    call,               \* Database: the last call that returned or raised
    arg,                \* a parsing function on its own: the argument
    ret,                \* a parsing function on its own: what it returned
    queue,              \* ReplayDownloader: self.queue, the match ids of the jobs
    rate_additional,    \* ReplayDownloader: self.rate_additional
    replays,            \* ReplayDownloader: self.replays
    replay_pc,          \* _process: position of the coroutine
    replay_job,         \* _process: match_id of the job taken, 0 for none
    replay_tries,       \* _process: the local tries
    replay_status,      \* _process: r.status_code of the last response, 0 for none
    replay_added,       \* number of add_game calls so far
    replay_requests,    \* requests sent so far for each job
    replay_written,     \* times <match_id>.dem.bz2 has been written, per job
    boot_pc,            \* _get_current_seq_num: position of the constructor
    boot_requests,      \* _get_current_seq_num: requests sent so far
    boot_r,             \* _get_current_seq_num: r, the last response
    boot_seq            \* the value the bootstrap gave self.seq_from

vars == <<retry, scope, exit, processes, close_pc, close_i, seq_from, polls,
          dota_api_timers, open_api_timers, dotaapi_lock, oapi_lock,
          dapi_inflight, oapi_inflight, matches_queue, match_info_queue,
          pc, tries, exc, num_results, valid_matches, match_id, match,
          loop_holder, now, wake, last_dispatch,
          files, memory, db, in_memory, mem_only, lock, db_pc,
          overwrite_original, call,
          arg, ret,
          queue, rate_additional, replays, replay_pc, replay_job,
          replay_tries, replay_status, replay_added, replay_requests,
          replay_written,
          boot_pc, boot_requests, boot_r, boot_seq>>

config == <<retry, scope>>
storeVars == <<files, memory, db, in_memory, mem_only, lock, db_pc,
               overwrite_original, call>>
clockVars == <<now, wake, last_dispatch>>
closeVars == <<exit, close_pc, close_i>>
feedVars == <<seq_from, polls, num_results, valid_matches>>
lockVars == <<dotaapi_lock, oapi_lock, dapi_inflight, oapi_inflight>>
timerVars == <<dota_api_timers, open_api_timers>>
queueVars == <<matches_queue, match_info_queue>>
parseVars == <<arg, ret>>
replayVars == <<queue, rate_additional, replays, replay_pc, replay_job,
                replay_tries, replay_status, replay_added, replay_requests,
                replay_written>>
bootVars == <<boot_pc, boot_requests, boot_r, boot_seq>>
otherVars == <<parseVars, replayVars, bootVars>>

----------------------------------------------------------------------------
(* Program constants. *)

num_oapi_threads == 2
wait_increment == 20
rate_limit_wait_base == 30
requested == 100
\* wait_seconds in tenths of a second: 5 s and 0.4 s
dota_wait_seconds == 50
oapi_wait_seconds == 4
\* Database._valid_game: the length of a side's picks and the largest hero ID
num_picks == 5
max_hero == 130
\* Database.get_drafts: the rows it expects per match
rows_per_match == 10

(* Bounds of the model. *)

\* max_retry is a constructor argument (default 5)
max_retry == 2
\* maxsize of matches_queue (100000 in the program) and match_info_queue (1000)
matches_queue_maxsize == 1
match_info_queue_maxsize == 1
\* the number of wait_increment steps rate_limit_wait may be above its base
MaxPenalty == 2
\* the number of non-empty feed batches a run takes
MaxPolls == 1
\* the number of pacing intervals of an endpoint the clock runs for
Horizon == 3

----------------------------------------------------------------------------
(* Tasks: the fetchers are named by their tid, the poller by the next number. *)

Fetchers == 0 .. (num_oapi_threads - 1)
Poller == num_oapi_threads
Workers == Fetchers \cup {Poller}
NoTask == 0 - 1
NoTime == 0 - 1

Min(a, b) == IF a < b THEN a ELSE b
Max(a, b) == IF a > b THEN a ELSE b

\* A JSON value that may be null or absent is a sequence of at most one element.
Null == <<>>
Just(v) == <<v>>

----------------------------------------------------------------------------
(* The feed API's match entries and the filter _parse_match_history. *)

FeedMatch(id, lobby, humans, mode, leavers) ==
    [match_id |-> id, lobby_type |-> lobby, human_players |-> humans,
     game_mode |-> mode, players |-> leavers]

AllPresent == [p \in 1..10 |-> Just(0)]
RankedMatch(id) == FeedMatch(id, 7, 10, 22, AllPresent)
\* one player without the leaver_status key
MissingLeaver(id) == FeedMatch(id, 7, 10, 22, [AllPresent EXCEPT ![3] = Null])
UnrankedMatch(id) == FeedMatch(id, 0, 10, 22, AllPresent)

\* a variant of the inner loop in which a KeyError does not reject
players_valid_lenient(players) ==
    \A p \in DOMAIN players :
        players[p] # Null => ~(players[p][1] # 0 /\ players[p][1] # 1)

\* the inner loop over players: KeyError or a status other than 0 and 1 rejects
players_valid(players) ==
    \A p \in DOMAIN players :
        /\ players[p] # Null
        /\ ~(players[p][1] # 0 /\ players[p][1] # 1)

match_valid(i) ==
    /\ players_valid(i.players)
    /\ ~(i.lobby_type # 7 \/ i.human_players # 10 \/ i.game_mode # 22)

RECURSIVE parse_match_history(_)
parse_match_history(matches) ==
    IF matches = <<>> THEN <<>>
    ELSE (IF match_valid(Head(matches)) THEN <<Head(matches).match_id>> ELSE <<>>)
         \o parse_match_history(Tail(matches))

----------------------------------------------------------------------------
(* The enrichment API's response body and the parser _parse_match.  A body *)
(* is a record holding the keys that are present; BadJson is a body that   *)
(* res.json() cannot decode.                                               *)

BadJson == [undecodable |-> TRUE]
Has(data, key) == key \in DOMAIN data
Without(data, key) == [k \in (DOMAIN data) \ {key} |-> data[k]]

RequiredKeys == {"match_id", "dire_score", "radiant_score", "duration",
                 "radiant_win", "start_time", "region", "skill",
                 "game_mode", "human_players", "lobby_type"}
ReplayKeys == {"replay_salt", "replay_url", "throw", "loss"}

\* format( n, "b" ): the binary digits of n >= 0, most significant first
RECURSIVE format_b(_)
format_b(n) ==
    IF n < 2 THEN <<IF n = 1 THEN "1" ELSE "0">>
    ELSE format_b(n \div 2) \o <<IF n % 2 = 1 THEN "1" ELSE "0">>

\* zero padding on the left up to width characters
zero_pad(s, width) ==
    IF Len(s) >= width THEN s ELSE [k \in 1..(width - Len(s)) |-> "0"] \o s

\* format( n, "08b" ): the sign counts in the width of 8
format_08b(n) ==
    IF n < 0 THEN <<"-">> \o zero_pad(format_b(0 - n), 7)
    ELSE zero_pad(format_b(n), 8)

\* int( format( player_slot, "08b" )[0] ): ValueError on "-"
slot_raises(slot) == format_08b(slot)[1] = "-"
\* a variant that reads the last character of the string
slot_team_last(slot) == IF format_08b(slot)[8] = "1" THEN 1 ELSE 0
slot_team(slot) == IF format_08b(slot)[1] = "1" THEN 1 ELSE 0

\* the heroes of the players whose team is `team`, in the order of the body
RECURSIVE picks_of(_, _)
picks_of(players, team) ==
    IF players = <<>> THEN <<>>
    ELSE (IF (slot_team(Head(players).player_slot) = 1) = (team = 1)
          THEN <<Head(players).hero_id>> ELSE <<>>)
         \o picks_of(Tail(players), team)

\* first try block: a missing key (KeyError) or int( None ) (TypeError)
fields_missing(data) ==
    \/ \E k \in RequiredKeys : ~Has(data, k)
    \/ data.radiant_win = Null

\* an exception that leaves _parse_match: no "players" key, or a negative slot
parse_match_raises(data) ==
    /\ ~fields_missing(data)
    /\ ~(data.game_mode # 22 \/ data.lobby_type # 7 \/ data.human_players # 10)
    /\ \/ ~Has(data, "players")
       \/ \E p \in DOMAIN data.players : slot_raises(data.players[p].player_slot)

\* the value _parse_match returns: Null for None, Just(match_details) otherwise
parse_match(data) ==
    IF fields_missing(data) THEN Null
    ELSE IF data.game_mode # 22 \/ data.lobby_type # 7 \/ data.human_players # 10
    THEN Null
    ELSE LET with_replay == \A k \in ReplayKeys : Has(data, k)
             dire_picks == picks_of(data.players, 1)
             rad_picks == picks_of(data.players, 0)
         IN  IF Len(dire_picks) # 5 \/ Len(rad_picks) # 5 THEN Null
             ELSE Just([match_id |-> data.match_id,
                        match_time |-> data.start_time,
                        winner |-> IF data.radiant_win[1] THEN 1 ELSE 0,
                        duration |-> data.duration,
                        radiant_score |-> data.radiant_score,
                        radiant_picks |-> rad_picks,
                        dire_score |-> data.dire_score,
                        dire_picks |-> dire_picks,
                        skill |-> IF data.skill = Null THEN 0 ELSE data.skill[1],
                        region |-> data.region,
                        salt |-> IF with_replay THEN Just(data.replay_salt) ELSE Null,
                        replay |-> IF with_replay THEN Just(data.replay_url) ELSE Null,
                        throw |-> IF with_replay THEN Just(data.throw) ELSE Null,
                        loss |-> IF with_replay THEN Just(data.loss) ELSE Null])

\* a body _parse_match accepts: slots 0..4 are radiant, 128..132 dire
GoodData(id) ==
    [match_id |-> id, dire_score |-> 20, radiant_score |-> 30, duration |-> 1800,
     radiant_win |-> Just(TRUE), start_time |-> 1500000000, region |-> 3,
     skill |-> Just(2), game_mode |-> 22, human_players |-> 10, lobby_type |-> 7,
     players |-> [p \in 1..10 |->
                    [hero_id |-> p,
                     player_slot |-> IF p <= 5 THEN p - 1 ELSE 128 + (p - 6)]]]

----------------------------------------------------------------------------
(* What the upstream services may answer. *)

FeedStatusCodes == {200, 401, 403, 404, 429, 500, 503}
OapiStatusCodes == {200, 404, 429, 500}

\* result.matches of a 200 feed response; the last one is longer than requested
FeedBatches ==
    { <<>>,
      <<RankedMatch(1), MissingLeaver(3), RankedMatch(2)>>,
      [k \in 1..(requested + 1) |-> UnrankedMatch(4)] }

\* bodies of a 200 enrichment response for match `id`
OapiBodies(id) ==
    { GoodData(id),
      [GoodData(id) EXCEPT !.game_mode = 1],
      Without(GoodData(id), "players"),
      BadJson }

----------------------------------------------------------------------------
(* The relational store (class Database): the records it is given.  A      *)
(* record is a Python dict; each value carries its type, because           *)
(* _valid_game tests type( x ) before it compares x.  A str is the         *)
(* sequence of its characters.                                             *)

int(n) == [type |-> "int", v |-> n]
str(s) == [type |-> "str", v |-> s]
list(items) == [type |-> "list", v |-> items]
None == [type |-> "NoneType", v |-> <<>>]

\* s[a:b] of a str
slice(s, a, b) == SubSeq(s, a + 1, Min(b, Len(s)))
http == <<"h", "t", "t", "p">>

\* one side's picks: a list of num_picks hero IDs, each an int in 0..max_hero
valid_picks(picks) ==
    IF picks.type # "list" \/ Len(picks.v) # num_picks THEN FALSE
    ELSE \A k \in DOMAIN picks.v :
            ~(picks.v[k].type # "int" \/ (picks.v[k].v < 0 \/ picks.v[k].v > max_hero))

_valid_game(game) ==
    IF game.match_id.type # "int" \/ game.match_id.v < 0 THEN FALSE
    ELSE IF game.match_time.type # "int" \/ game.match_time.v < 0 THEN FALSE
    ELSE IF game.winner.type # "int" \/ (game.winner.v # 0 /\ game.winner.v # 1)
    THEN FALSE
    ELSE IF game.duration.type # "int" \/ game.duration.v <= 0 THEN FALSE
    ELSE IF game.radiant_score.type # "int" \/ game.radiant_score.v < 0 THEN FALSE
    ELSE IF game.dire_score.type # "int" \/ game.dire_score.v < 0 THEN FALSE
    ELSE IF game.skill.type # "int" \/ (game.skill.v < 1 \/ game.skill.v > 3)
    THEN FALSE
    ELSE IF game.region.type # "int" \/ game.region.v < 0 THEN FALSE
    ELSE IF ~valid_picks(game.radiant_picks) THEN FALSE
    ELSE IF ~valid_picks(game.dire_picks) THEN FALSE
    ELSE IF game.salt.type # "NoneType" /\ game.salt.type # "int" THEN FALSE
    ELSE IF game.throw.type # "NoneType" /\ game.throw.type # "int" THEN FALSE
    ELSE IF game.loss.type # "NoneType" /\ game.loss.type # "int" THEN FALSE
    ELSE IF \/ game.replay.type # "NoneType" /\ game.replay.type # "str"
            \/ game.replay.type = "str" /\ slice(game.replay.v, 0, 4) # http
    THEN FALSE
    ELSE TRUE

\* the dict get_match() hands over: what _parse_match built, as Python values
Nullable(x) == IF x = Null THEN None ELSE int(x[1])
Heroes(picks) == list([k \in DOMAIN picks |-> int(picks[k])])
match_details(m) ==
    [match_id |-> int(m.match_id), match_time |-> int(m.match_time),
     winner |-> int(m.winner), duration |-> int(m.duration),
     radiant_score |-> int(m.radiant_score),
     radiant_picks |-> Heroes(m.radiant_picks),
     dire_score |-> int(m.dire_score), dire_picks |-> Heroes(m.dire_picks),
     skill |-> int(m.skill), region |-> int(m.region),
     salt |-> Nullable(m.salt),
     replay |-> IF m.replay = Null THEN None ELSE str(m.replay[1]),
     throw |-> Nullable(m.throw), loss |-> Nullable(m.loss)]

\* the records the callers of commit_game submit, by position; the first
\* five are records _parse_match returns
Parsed(data) == match_details(parse_match(data)[1])
WithReplay(data) ==
    [k \in DOMAIN data \cup ReplayKeys |->
        IF k \in DOMAIN data THEN data[k]
        ELSE IF k = "replay_url" THEN http \o <<":">> ELSE 7]
games ==
    << \* 1: match 1: radiant 1..5 won against dire 6..10
       Parsed(GoodData(1)),
       \* 2: match 1 from another body: dire 16..20 won against radiant 11..15
       Parsed([GoodData(1) EXCEPT
                  !.radiant_win = Just(FALSE), !.duration = 2400,
                  !.players = [p \in 1..10 |-> [@[p] EXCEPT !.hero_id = 10 + p]]]),
       \* 3: match 1 from a body with hero 1 on both sides; dire won
       Parsed([GoodData(1) EXCEPT
                  !.radiant_win = Just(FALSE), !.duration = 3000,
                  !.players = [p \in 1..10 |->
                                 IF p = 6 THEN [@[p] EXCEPT !.hero_id = 1]
                                 ELSE @[p]]]),
       \* 4: match 2, with the replay fields
       Parsed(WithReplay(GoodData(2))),
       \* 5: match 3 from a body with "skill": null
       Parsed([GoodData(3) EXCEPT !.skill = Null]),
       \* the others are not what the parser returns
       [Parsed(GoodData(3)) EXCEPT !.winner = int(2)],
       [Parsed(GoodData(3)) EXCEPT !.duration = int(0)],
       [Parsed(GoodData(3)) EXCEPT !.match_time = None],
       [Parsed(GoodData(3)) EXCEPT !.dire_picks = Heroes(<<6, 7, 8, 9>>)],
       [Parsed(GoodData(3)) EXCEPT
            !.radiant_picks = Heroes(<<1, 2, 3, 4, max_hero + 1>>)],
       [Parsed(GoodData(3)) EXCEPT !.replay = str(<<"f", "t", "p">>)],
       [Parsed(GoodData(3)) EXCEPT !.salt = str(<<"7">>)] >>

parsed == 1..5

----------------------------------------------------------------------------
(* The store's content and the SQL statements the class executes.  A       *)
(* database is its two tables; a nullable column is Null or Just(value).   *)

EmptyTables == [match_info |-> {}, hero_picks |-> {}]

column(x) == IF x.type = "NoneType" THEN Null ELSE Just(x.v)

\* the row the named parameters of the match_info statement bind
match_row(game) ==
    [match_id |-> game.match_id.v, match_time |-> game.match_time.v,
     winner |-> game.winner.v, duration |-> game.duration.v,
     r_score |-> game.radiant_score.v, d_score |-> game.dire_score.v,
     skill |-> game.skill.v, region |-> game.region.v,
     salt |-> column(game.salt), replay |-> column(game.replay),
     throw |-> column(game.throw), loss |-> column(game.loss)]

pick_row(id, team, hero) == [match_id |-> id, team |-> team, hero |-> hero]

\* the heroes of a valid side, as a sequence of integers
heroes_of(picks) == [k \in DOMAIN picks.v |-> picks.v[k].v]

\* DELETE FROM match_info WHERE match_id = id: with foreign keys enforced
\* the deletion of a row cascades to the hero_picks rows that refer to it
delete_match(tables, id, foreign_keys) ==
    IF \A r \in tables.match_info : r.match_id # id THEN tables
    ELSE [match_info |-> {r \in tables.match_info : r.match_id # id},
          hero_picks |-> IF foreign_keys
                         THEN {p \in tables.hero_picks : p.match_id # id}
                         ELSE tables.hero_picks]

\* INSERT OR REPLACE INTO match_info: the row with the same primary key is
\* deleted first
replace_match(tables, row, foreign_keys) ==
    LET deleted == delete_match(tables, row.match_id, foreign_keys)
    IN  [deleted EXCEPT !.match_info = @ \cup {row}]

\* INSERT OR REPLACE INTO hero_picks: the primary key is (match_id, hero)
replace_pick(tables, row) ==
    [tables EXCEPT !.hero_picks =
        {p \in @ : ~(p.match_id = row.match_id /\ p.hero = row.hero)}
        \cup {row}]

\* the statements of commit_game's transaction, in the order it executes them
statements(game) ==
    <<[table |-> "match_info", row |-> match_row(game)]>>
    \o [k \in 1..Len(game.dire_picks.v) |->
          [table |-> "hero_picks",
           row |-> pick_row(game.match_id.v, 0, game.dire_picks.v[k].v)]]
    \o [k \in 1..Len(game.radiant_picks.v) |->
          [table |-> "hero_picks",
           row |-> pick_row(game.match_id.v, 1, game.radiant_picks.v[k].v)]]

RECURSIVE execute(_, _, _)
execute(tables, stmts, foreign_keys) ==
    IF stmts = <<>> THEN tables
    ELSE execute(IF Head(stmts).table = "match_info"
                 THEN replace_match(tables, Head(stmts).row, foreign_keys)
                 ELSE replace_pick(tables, Head(stmts).row),
                 Tail(stmts), foreign_keys)

----------------------------------------------------------------------------
(* The connection self.db: the database it is open on and whether the      *)
(* connection enforces foreign keys (off unless the PRAGMA has been run    *)
(* on it).                                                                 *)

database_dir == "database"
mem_file == "database.mem"
in_memory_db == ":memory:"

Threads == {1, 2}
NoThread == 0
NoCall == [op |-> "none", game |-> 0, args |-> <<>>, result |-> "none",
           at |-> 0, value |-> <<>>]

\* the tables the live connection reads
tables_of(conn) ==
    IF conn.path = in_memory_db THEN memory[1] ELSE files[conn.path][1]
live == tables_of(db)

\* a committed write through the live connection
write(tables) ==
    IF db.path = in_memory_db
    THEN memory' = Just(tables) /\ UNCHANGED files
    ELSE files' = [files EXCEPT ![db.path] = Just(tables)] /\ UNCHANGED memory

\* connect( database_dir ), the PRAGMA and the two CREATE TABLE IF NOT EXISTS
_load_database == [path |-> database_dir, foreign_keys |-> TRUE]

\* the state after Database( database, mem_only ) on a new file
Database__init__ ==
    /\ mem_only \in BOOLEAN
    /\ files = [f \in {database_dir, mem_file} |->
                  IF f = database_dir THEN Just(EmptyTables) ELSE Null]
    /\ memory = IF mem_only THEN Just(EmptyTables) ELSE Null
    /\ db = IF mem_only THEN [path |-> in_memory_db, foreign_keys |-> FALSE]
            ELSE _load_database
    /\ in_memory = mem_only
    /\ lock = NoThread
    /\ db_pc = [t \in Threads |-> "idle"]
    /\ overwrite_original = [t \in Threads |-> FALSE]
    /\ call = NoCall

----------------------------------------------------------------------------
(* The state after API.__init__ has returned: the bootstrap request has    *)
(* set seq_from and dota_api_timers["last_request"]; the clock has long    *)
(* passed both pacing intervals since the epoch.                           *)

StartTime == dota_wait_seconds
MaxWait == rate_limit_wait_base + MaxPenalty * wait_increment

__init__ ==
    /\ retry \in BOOLEAN
    /\ exit = FALSE
    /\ processes = num_oapi_threads + 1
    /\ close_pc = "idle"
    /\ close_i = 0
    /\ seq_from = 0
    /\ polls = 0
    /\ now = StartTime
    /\ dota_api_timers = [last_request |-> StartTime,
                          rate_limit_wait |-> rate_limit_wait_base]
    /\ open_api_timers = [last_request |-> 0,
                          rate_limit_wait |-> rate_limit_wait_base]
    /\ dotaapi_lock = NoTask
    /\ oapi_lock = NoTask
    /\ dapi_inflight = {}
    /\ oapi_inflight = {}
    /\ matches_queue = <<>>
    /\ match_info_queue = <<>>
    /\ pc = [w \in Workers |-> "start"]
    /\ tries = [w \in Workers |-> 0]
    /\ exc = [w \in Workers |-> "none"]
    /\ num_results = 0
    /\ valid_matches = <<>>
    /\ match_id = [t \in Fetchers |-> 0]
    /\ match = [t \in Fetchers |-> Null]
    /\ loop_holder = NoTask
    /\ wake = [w \in Workers |-> NoTime]
    /\ last_dispatch = [dota |-> NoTime, oapi |-> NoTime]

\* the parts of the program that a specification leaves out are at rest
not_parsing ==
    /\ arg = Null
    /\ ret = Null

\* the number of replay jobs added in a run
MaxJobs == 2
Jobs == 1..MaxJobs

\* ReplayDownloader.__init__
rate == 10
rate_additional_base == 30
ReplayDownloader__init__ ==
    /\ queue = <<>>
    /\ rate_additional = rate_additional_base
    /\ replays = 0
    /\ replay_pc = "get"
    /\ replay_job = 0
    /\ replay_tries = 0
    /\ replay_status = 0
    /\ replay_added = 0
    /\ replay_requests = [j \in Jobs |-> 0]
    /\ replay_written = [j \in Jobs |-> 0]

\* match_seq_num of the matches of a bootstrap response
NoResponse == [status_code |-> 0, matches |-> <<>>]
SeqNums == {4, 7}

\* the constructor has returned after one request
bootstrapped ==
    /\ boot_pc = "done"
    /\ boot_requests = 1
    /\ boot_r = [status_code |-> 200, matches |-> <<[match_seq_num |-> 4]>>]
    /\ boot_seq = 4

elsewhere ==
    /\ not_parsing
    /\ ReplayDownloader__init__
    /\ bootstrapped

\* run() has scheduled the poller and every fetcher
Init ==
    /\ scope = "pipeline"
    /\ __init__
    /\ mem_only = FALSE
    /\ Database__init__
    /\ elsewhere

----------------------------------------------------------------------------
(* Control of a worker coroutine.  Each operator below fixes the five      *)
(* variables of ctlVars; a local variable that is dead is reset.           *)

ctlVars == <<pc, tries, exc, processes, match_id>>

\* the event loop's thread is free to run a coroutine
LoopFree == loop_holder = NoTask

\* the ID a fetcher holds (the poller holds none)
with_id(w, id) == IF w = Poller THEN match_id ELSE [match_id EXCEPT ![w] = id]

\* worker w goes on at position p, after n attempts of its for loop
Goto(w, p, n) ==
    /\ pc' = [pc EXCEPT ![w] = p]
    /\ tries' = [tries EXCEPT ![w] = n]
    /\ exc' = exc
    /\ processes' = processes
    /\ match_id' = match_id

\* a variant in which the exception leaves the coroutine
Raise_propagates(w, e) ==
    /\ pc' = [pc EXCEPT ![w] = "crashed"]
    /\ tries' = [tries EXCEPT ![w] = 0]
    /\ exc' = [exc EXCEPT ![w] = e]
    /\ processes' = processes
    /\ match_id' = with_id(w, 0)

\* An exception raised in the loop body: the try of the while loop catches
\* BaseException, and the handler sleeps 1800 s.
Raise(w, e) ==
    /\ pc' = [pc EXCEPT ![w] = "fatal_sleep"]
    /\ tries' = [tries EXCEPT ![w] = 0]
    /\ exc' = [exc EXCEPT ![w] = e]
    /\ processes' = processes
    /\ match_id' = with_id(w, 0)

\* "if self.exit": the slot is released and the loop is left
worker_exit(w, slots) ==
    /\ pc' = [pc EXCEPT ![w] = "done"]
    /\ tries' = [tries EXCEPT ![w] = 0]
    /\ exc' = [exc EXCEPT ![w] = "none"]
    /\ processes' = slots + 1
    /\ match_id' = with_id(w, 0)

\* the head of the poller's "for _ in range( 0, self.max_retry )" after n
\* attempts, and its else branch
get_matches_for(n) ==
    IF n < max_retry THEN Goto(Poller, "lock", n + 1)
    ELSE IF ~retry THEN Raise(Poller, "ServiceNotAvailable")
    ELSE Goto(Poller, "error_sleep", 0)

\* the top of the poller's while loop, the Semaphore holding `slots`
get_matches_loop(slots) ==
    IF exit THEN worker_exit(Poller, slots)
    ELSE /\ pc' = [pc EXCEPT ![Poller] =
                     IF 0 < max_retry THEN "lock"
                     ELSE IF ~retry THEN "fatal_sleep" ELSE "error_sleep"]
         /\ tries' = [tries EXCEPT ![Poller] = IF 0 < max_retry THEN 1 ELSE 0]
         /\ exc' = [exc EXCEPT ![Poller] =
                      IF 0 < max_retry \/ retry THEN "none" ELSE "ServiceNotAvailable"]
         /\ processes' = slots
         /\ match_id' = match_id

\* the top of a fetcher's while loop: it waits on matches_queue
get_matches_info_loop(t, slots) ==
    IF exit THEN worker_exit(t, slots)
    ELSE /\ pc' = [pc EXCEPT ![t] = "get"]
         /\ tries' = [tries EXCEPT ![t] = 0]
         /\ exc' = [exc EXCEPT ![t] = "none"]
         /\ processes' = slots
         /\ match_id' = with_id(t, 0)

worker_loop(w, slots) ==
    IF w = Poller THEN get_matches_loop(slots) ELSE get_matches_info_loop(w, slots)

\* self.processes.acquire() at the start of a worker, a blocking call; the
\* worker then reaches the top of its loop
processes_acquire(w) ==
    /\ pc[w] \in {"start", "acquire_wait"}
    /\ loop_holder \in {NoTask, w}
    /\ processes > 0
    /\ loop_holder' = NoTask
    /\ worker_loop(w, processes - 1)
    /\ UNCHANGED <<config, storeVars, otherVars, closeVars, feedVars, timerVars, lockVars, queueVars,
                   match, clockVars>>

\* the Semaphore has no slot left: the call blocks the thread of the event loop
processes_acquire_block(w) ==
    /\ pc[w] = "start"
    /\ LoopFree
    /\ processes = 0
    /\ loop_holder' = w
    /\ Goto(w, "acquire_wait", 0)
    /\ UNCHANGED <<config, storeVars, otherVars, closeVars, feedVars, timerVars, lockVars, queueVars,
                   match, clockVars>>

\* the handler's asyncio.sleep( 1800 ) ends; the while loop goes on
fatal_sleep_wake(w) ==
    /\ pc[w] = "fatal_sleep"
    /\ LoopFree
    /\ worker_loop(w, processes)
    /\ UNCHANGED <<config, storeVars, otherVars, closeVars, feedVars, timerVars, lockVars, queueVars,
                   match, loop_holder, clockVars>>

----------------------------------------------------------------------------
(* _dapi_request: the lock is held from the pacing check until the         *)
(* response has arrived.                                                   *)

\* a variant without the pacing check
never_too_soon == FALSE

dapi_too_soon == now - dota_api_timers.last_request < dota_wait_seconds
dapi_pace_delay == dota_wait_seconds - (now - dota_api_timers.last_request)

\* run_in_executor and last_request = time.time()
dapi_dispatch(w) ==
    /\ dapi_inflight' = dapi_inflight \cup {w}
    /\ dota_api_timers' = [dota_api_timers EXCEPT !.last_request = now]
    /\ Goto(w, "await", tries[w])

\* with await self.dotaapi_lock, then the pacing check
dapi_request_enter(w, too_soon, until) ==
    /\ pc[w] = "lock"
    /\ LoopFree
    /\ dotaapi_lock = NoTask
    /\ dotaapi_lock' = w
    /\ IF too_soon
       THEN /\ Goto(w, "pace", tries[w])
            /\ wake' = [wake EXCEPT ![w] = until]
            /\ UNCHANGED <<dapi_inflight, dota_api_timers>>
       ELSE /\ dapi_dispatch(w)
            /\ wake' = wake
    /\ UNCHANGED <<config, storeVars, otherVars, closeVars, feedVars, open_api_timers, oapi_lock,
                   oapi_inflight, queueVars, match, loop_holder, now>>

\* the pacing sleep is over
dapi_request_wake(w) ==
    /\ pc[w] = "pace"
    /\ LoopFree
    /\ now >= wake[w]
    /\ wake' = [wake EXCEPT ![w] = NoTime]
    /\ dapi_dispatch(w)
    /\ UNCHANGED <<config, storeVars, otherVars, closeVars, feedVars, open_api_timers, dotaapi_lock,
                   oapi_lock, oapi_inflight, queueVars, match, loop_holder, now>>

----------------------------------------------------------------------------
(* _get_matches, the feed poller. *)

get_matches_acquire == processes_acquire(Poller)

get_matches_acquire_block == processes_acquire_block(Poller)

get_matches_request ==
    /\ \E too_soon \in BOOLEAN : dapi_request_enter(Poller, too_soon, NoTime)
    /\ last_dispatch' = last_dispatch

get_matches_request_wake ==
    /\ dapi_request_wake(Poller)
    /\ last_dispatch' = last_dispatch

\* a variant that adds the whole batch
seq_advance_all(n) == n

\* what the poller adds to seq_from for a batch of n matches
seq_advance(n) == Min(n, requested)

\* a variant without the clamp at the base
rate_limit_relax_unclamped(wait) == wait - wait_increment

\* rate_limit_wait after a request that succeeded
rate_limit_relax(wait) == Max(rate_limit_wait_base, wait - wait_increment)

\* rate_limit_wait after the sleep that follows a non-200 response
rate_limit_grow(wait) == wait + wait_increment

\* the response arrives (the lock is released) and is classified
get_matches_response(status_code, batch) ==
    /\ pc[Poller] = "await"
    /\ LoopFree
    /\ Poller \in dapi_inflight
    /\ dapi_inflight' = dapi_inflight \ {Poller}
    /\ dotaapi_lock' = NoTask
    /\ IF status_code # 200
       THEN /\ dota_api_timers.rate_limit_wait < MaxWait
            /\ IF status_code \in {500, 503} /\ ~retry
               THEN Raise(Poller, "ServiceNotAvailable")
               ELSE IF status_code \in {401, 403} /\ ~retry
               THEN Raise(Poller, "InvalidAuthKey")
               ELSE Goto(Poller, "rl_sleep", tries[Poller])
            /\ UNCHANGED <<feedVars, dota_api_timers>>
       ELSE IF Len(batch) > 0
       THEN /\ polls < MaxPolls
            /\ polls' = polls + 1
            /\ num_results' = Len(batch)
            /\ seq_from' = seq_from + seq_advance(Len(batch))
            /\ dota_api_timers' =
                 [dota_api_timers EXCEPT !.rate_limit_wait = rate_limit_relax(@)]
            /\ valid_matches' = parse_match_history(batch)
            /\ IF valid_matches' = <<>> THEN get_matches_loop(processes)
               ELSE Goto(Poller, "enqueue", 0)
       ELSE /\ num_results' = 0
            /\ Goto(Poller, "empty_sleep", tries[Poller])
            /\ UNCHANGED <<seq_from, polls, valid_matches, dota_api_timers>>
    /\ UNCHANGED <<config, storeVars, otherVars, closeVars, open_api_timers, oapi_lock, oapi_inflight,
                   queueVars, match, loop_holder, clockVars>>

\* a 200 response whose body has no result.matches: KeyError or ValueError
get_matches_bad_body ==
    /\ pc[Poller] = "await"
    /\ LoopFree
    /\ Poller \in dapi_inflight
    /\ dapi_inflight' = dapi_inflight \ {Poller}
    /\ dotaapi_lock' = NoTask
    /\ Raise(Poller, "KeyError")
    /\ UNCHANGED <<config, storeVars, otherVars, closeVars, feedVars, timerVars, oapi_lock,
                   oapi_inflight, queueVars, match, loop_holder, clockVars>>

\* asyncio.sleep( rate_limit_wait ) is over: the penalty grows, next attempt
get_matches_penalty ==
    /\ pc[Poller] = "rl_sleep"
    /\ LoopFree
    /\ dota_api_timers' =
         [dota_api_timers EXCEPT !.rate_limit_wait = rate_limit_grow(@)]
    /\ get_matches_for(tries[Poller])
    /\ UNCHANGED <<config, storeVars, otherVars, closeVars, feedVars, open_api_timers, lockVars,
                   queueVars, match, loop_holder, clockVars>>

\* asyncio.sleep( empty_wait_seconds ) is over: "continue" in the for loop
get_matches_empty_wake ==
    /\ pc[Poller] = "empty_sleep"
    /\ LoopFree
    /\ get_matches_for(tries[Poller])
    /\ UNCHANGED <<config, storeVars, otherVars, closeVars, feedVars, timerVars, lockVars,
                   queueVars, match, loop_holder, clockVars>>

\* asyncio.sleep( continued_error_sleep ) is over: "continue" in the while loop
get_matches_error_wake ==
    /\ pc[Poller] = "error_sleep"
    /\ LoopFree
    /\ get_matches_loop(processes)
    /\ UNCHANGED <<config, storeVars, otherVars, closeVars, feedVars, timerVars, lockVars,
                   queueVars, match, loop_holder, clockVars>>

\* matches_queue.put( i ) completes; after the last ID the while loop goes on
get_matches_put ==
    /\ pc[Poller] = "enqueue"
    /\ LoopFree
    /\ Len(matches_queue) < matches_queue_maxsize
    /\ matches_queue' = Append(matches_queue, Head(valid_matches))
    /\ valid_matches' = Tail(valid_matches)
    /\ IF valid_matches' = <<>> THEN get_matches_loop(processes)
       ELSE Goto(Poller, "enqueue", 0)
    /\ UNCHANGED <<config, storeVars, otherVars, closeVars, seq_from, polls, num_results, timerVars,
                   lockVars, match_info_queue, match, loop_holder, clockVars>>

\* the put has waited queue_warning seconds: the TimeoutError handler reads
\* self.dota_api_timers["full_queue_warning"], a key the dict does not have
get_matches_put_timeout ==
    /\ pc[Poller] = "enqueue"
    /\ LoopFree
    /\ Len(matches_queue) >= matches_queue_maxsize
    /\ valid_matches' = <<>>
    /\ Raise(Poller, "KeyError")
    /\ UNCHANGED <<config, storeVars, otherVars, closeVars, seq_from, polls, num_results, timerVars,
                   lockVars, queueVars, match, loop_holder, clockVars>>

get_matches_fatal_wake == fatal_sleep_wake(Poller)

----------------------------------------------------------------------------
(* _oapi_request: the lock is held from the pacing check until the request *)
(* has been handed to the executor; the response is awaited without it.    *)

oapi_too_soon == now - open_api_timers.last_request < oapi_wait_seconds
oapi_pace_delay == oapi_wait_seconds - (now - open_api_timers.last_request)

\* the holder of oapi_lock once the with block is left, before "await future_res"
oapi_lock_after_dispatch(t) == NoTask

\* run_in_executor and last_request = time.time(), then the with block ends
oapi_dispatch(t) ==
    /\ oapi_inflight' = oapi_inflight \cup {t}
    /\ open_api_timers' = [open_api_timers EXCEPT !.last_request = now]
    /\ oapi_lock' = oapi_lock_after_dispatch(t)
    /\ Goto(t, "await", tries[t])

\* with await self.oapi_lock, then the pacing check
oapi_request_enter(t, too_soon, until) ==
    /\ pc[t] = "lock"
    /\ LoopFree
    /\ oapi_lock = NoTask
    /\ IF too_soon
       THEN /\ oapi_lock' = t
            /\ Goto(t, "pace", tries[t])
            /\ wake' = [wake EXCEPT ![t] = until]
            /\ UNCHANGED <<oapi_inflight, open_api_timers>>
       ELSE /\ oapi_dispatch(t)
            /\ wake' = wake
    /\ UNCHANGED <<config, storeVars, otherVars, closeVars, feedVars, dota_api_timers, dotaapi_lock,
                   dapi_inflight, queueVars, match, loop_holder, now>>

\* the pacing sleep is over
oapi_request_wake(t) ==
    /\ pc[t] = "pace"
    /\ LoopFree
    /\ now >= wake[t]
    /\ wake' = [wake EXCEPT ![t] = NoTime]
    /\ oapi_dispatch(t)
    /\ UNCHANGED <<config, storeVars, otherVars, closeVars, feedVars, dota_api_timers, dotaapi_lock,
                   dapi_inflight, queueVars, match, loop_holder, now>>

----------------------------------------------------------------------------
(* _get_matches_info, one fetcher per tid. *)

\* a variant of the head of the for loop that never runs out of attempts
get_matches_info_for_ever(t, n) == Goto(t, "lock", n + 1)

\* the head of "for _ in range( 0, self.max_retry )" after n attempts; its else
\* branch logs and continues the while loop
get_matches_info_for(t, n) ==
    IF n < max_retry THEN Goto(t, "lock", n + 1)
    ELSE get_matches_info_loop(t, processes)

get_matches_info_acquire(t) == processes_acquire(t)

get_matches_info_acquire_block(t) == processes_acquire_block(t)

\* matches_queue.get() returns an ID: the first attempt of the for loop
get_matches_info_get(t) ==
    /\ pc[t] = "get"
    /\ LoopFree
    /\ matches_queue # <<>>
    /\ matches_queue' = Tail(matches_queue)
    /\ IF 0 < max_retry
       THEN /\ pc' = [pc EXCEPT ![t] = "lock"]
            /\ tries' = [tries EXCEPT ![t] = 1]
            /\ match_id' = [match_id EXCEPT ![t] = Head(matches_queue)]
            /\ UNCHANGED <<exc, processes>>
       ELSE get_matches_info_loop(t, processes)
    /\ UNCHANGED <<config, storeVars, otherVars, closeVars, feedVars, timerVars, lockVars,
                   match_info_queue, match, loop_holder, clockVars>>

\* the get has waited queue_warning seconds: warning, "continue"
get_matches_info_get_timeout(t) ==
    /\ pc[t] = "get"
    /\ LoopFree
    /\ matches_queue = <<>>
    /\ get_matches_info_loop(t, processes)
    /\ UNCHANGED <<config, storeVars, otherVars, closeVars, feedVars, timerVars, lockVars,
                   queueVars, match, loop_holder, clockVars>>

get_matches_info_request(t) ==
    /\ \E too_soon \in BOOLEAN : oapi_request_enter(t, too_soon, NoTime)
    /\ last_dispatch' = last_dispatch

get_matches_info_request_wake(t) ==
    /\ oapi_request_wake(t)
    /\ last_dispatch' = last_dispatch

\* the fetchers that will add wait_increment when their sleep ends
penalty_pending == {u \in Fetchers : pc[u] \in {"sleep_404", "rl_sleep"}}

\* where a fetcher goes after a non-200 response: every branch but the raise
\* ends in a sleep that is followed by the penalty
oapi_failed(t, status_code) ==
    IF status_code = 404 THEN Goto(t, "sleep_404", tries[t])
    ELSE IF status_code = 429 THEN Goto(t, "rl_sleep", tries[t])
    ELSE IF ~retry THEN Raise(t, "OAPIError")
    ELSE Goto(t, "rl_sleep", tries[t])

\* the response arrives and is classified; a 200 is parsed
get_matches_info_response(t, status_code, body) ==
    /\ pc[t] = "await"
    /\ LoopFree
    /\ t \in oapi_inflight
    /\ oapi_inflight' = oapi_inflight \ {t}
    /\ IF status_code # 200
       THEN /\ open_api_timers.rate_limit_wait
                 + wait_increment * (1 + Cardinality(penalty_pending)) <= MaxWait
            /\ oapi_failed(t, status_code)
            /\ UNCHANGED <<open_api_timers, match>>
       ELSE /\ open_api_timers' =
                 [open_api_timers EXCEPT !.rate_limit_wait = rate_limit_relax(@)]
            /\ IF body = BadJson
               THEN Raise(t, "ValueError") /\ match' = match
               ELSE IF parse_match_raises(body)
               THEN Raise(t, "KeyError") /\ match' = match
               ELSE IF parse_match(body) = Null
               THEN get_matches_info_loop(t, processes) /\ match' = match
               ELSE /\ match' = [match EXCEPT ![t] = parse_match(body)]
                    /\ Goto(t, "put", 0)
    /\ UNCHANGED <<config, storeVars, otherVars, closeVars, feedVars, dota_api_timers, dotaapi_lock,
                   oapi_lock, dapi_inflight, queueVars, loop_holder, clockVars>>

\* the sleep after a non-200 response is over: the penalty grows, next attempt
get_matches_info_penalty(t) ==
    /\ pc[t] \in {"sleep_404", "rl_sleep"}
    /\ LoopFree
    /\ open_api_timers' =
         [open_api_timers EXCEPT !.rate_limit_wait = rate_limit_grow(@)]
    /\ get_matches_info_for(t, tries[t])
    /\ UNCHANGED <<config, storeVars, otherVars, closeVars, feedVars, dota_api_timers, lockVars,
                   queueVars, match, loop_holder, clockVars>>

\* match_info_queue.put( match, timeout ) finds room: break, task_done, and the
\* while loop goes on
get_matches_info_put(t) ==
    /\ pc[t] \in {"put", "put_wait"}
    /\ loop_holder = (IF pc[t] = "put" THEN NoTask ELSE t)
    /\ Len(match_info_queue) < match_info_queue_maxsize
    /\ match_info_queue' = Append(match_info_queue, match[t][1])
    /\ match' = [match EXCEPT ![t] = Null]
    /\ loop_holder' = NoTask
    /\ get_matches_info_loop(t, processes)
    /\ UNCHANGED <<config, storeVars, otherVars, closeVars, feedVars, timerVars, lockVars,
                   matches_queue, clockVars>>

\* the queue is full: queue.Queue.put blocks the thread of the event loop; after
\* each timeout the handler logs and calls put again without an await
get_matches_info_put_block(t) ==
    /\ pc[t] = "put"
    /\ LoopFree
    /\ Len(match_info_queue) >= match_info_queue_maxsize
    /\ loop_holder' = t
    /\ Goto(t, "put_wait", 0)
    /\ UNCHANGED <<config, storeVars, otherVars, closeVars, feedVars, timerVars, lockVars,
                   queueVars, match, clockVars>>

get_matches_info_fatal_wake(t) == fatal_sleep_wake(t)

----------------------------------------------------------------------------
(* The other threads: the consumer's get_match and close(). *)

get_match ==
    /\ match_info_queue # <<>>
    /\ match_info_queue' = Tail(match_info_queue)
    /\ UNCHANGED <<config, storeVars, otherVars, closeVars, feedVars, timerVars, lockVars,
                   matches_queue, ctlVars, match, loop_holder, clockVars>>

\* close(): self.exit = True
close ==
    /\ close_pc = "idle"
    /\ exit' = TRUE
    /\ close_pc' = "acquiring"
    /\ close_i' = 0
    /\ UNCHANGED <<config, storeVars, otherVars, feedVars, timerVars, lockVars, queueVars,
                   ctlVars, match, loop_holder, clockVars>>

\* close(): one self.processes.acquire() of the num_oapi_threads + 1
close_acquire ==
    /\ close_pc = "acquiring"
    /\ processes > 0
    /\ processes' = processes - 1
    /\ close_i' = close_i + 1
    /\ close_pc' = IF close_i' = num_oapi_threads + 1 THEN "returned" ELSE "acquiring"
    /\ UNCHANGED <<config, storeVars, otherVars, exit, feedVars, timerVars, lockVars, queueVars,
                   pc, tries, exc, match_id, match, loop_holder, clockVars>>

----------------------------------------------------------------------------
(* The pipeline.  The clock stands still: whether a request comes too soon *)
(* after the last one is left open.                                        *)

PollerNext ==
    \/ get_matches_acquire
    \/ get_matches_acquire_block
    \/ get_matches_request
    \/ get_matches_request_wake
    \/ \E status_code \in FeedStatusCodes \ {200} :
          get_matches_response(status_code, <<>>)
    \/ \E batch \in FeedBatches : get_matches_response(200, batch)
    \/ get_matches_bad_body
    \/ get_matches_penalty
    \/ get_matches_empty_wake
    \/ get_matches_error_wake
    \/ get_matches_put
    \/ get_matches_put_timeout
    \/ get_matches_fatal_wake

FetcherNext(t) ==
    \/ get_matches_info_acquire(t)
    \/ get_matches_info_acquire_block(t)
    \/ get_matches_info_get(t)
    \/ get_matches_info_get_timeout(t)
    \/ get_matches_info_request(t)
    \/ get_matches_info_request_wake(t)
    \/ \E status_code \in OapiStatusCodes \ {200} :
          get_matches_info_response(t, status_code, BadJson)
    \/ \E body \in OapiBodies(match_id[t]) : get_matches_info_response(t, 200, body)
    \/ get_matches_info_penalty(t)
    \/ get_matches_info_put(t)
    \/ get_matches_info_put_block(t)
    \/ get_matches_info_fatal_wake(t)

Next ==
    \/ PollerNext
    \/ \E t \in Fetchers : FetcherNext(t)
    \/ get_match
    \/ close
    \/ close_acquire

Spec == Init /\ [][Next]_vars

----------------------------------------------------------------------------
(* One side of matches_queue at a time: the poller with the queue drained  *)
(* as the fetchers drain it, or the fetchers with the queue filled as the  *)
(* poller fills it.  The two sides share nothing else but the Semaphore    *)
(* and the exit flag.                                                      *)

\* an ID as the poller puts it; a fetcher does not branch on the value of the ID
FeedIds == {1}

\* what a fetcher's matches_queue.get() does to the queue
matches_queue_get ==
    /\ matches_queue # <<>>
    /\ matches_queue' = Tail(matches_queue)
    /\ UNCHANGED <<config, storeVars, otherVars, closeVars, feedVars, timerVars, lockVars,
                   match_info_queue, ctlVars, match, loop_holder, clockVars>>

\* what the poller's matches_queue.put( i ) does to the queue
matches_queue_put(i) ==
    /\ Len(matches_queue) < matches_queue_maxsize
    /\ matches_queue' = Append(matches_queue, i)
    /\ UNCHANGED <<config, storeVars, otherVars, closeVars, feedVars, timerVars, lockVars,
                   match_info_queue, ctlVars, match, loop_holder, clockVars>>

SideInit ==
    /\ scope \in {"feed", "enrichment"}
    /\ __init__
    /\ mem_only = FALSE
    /\ Database__init__
    /\ elsewhere

SideNext ==
    \/ scope = "feed" /\ PollerNext
    \/ scope = "feed" /\ matches_queue_get
    \/ scope = "enrichment" /\ \E t \in Fetchers : FetcherNext(t)
    \/ scope = "enrichment" /\ \E i \in FeedIds : matches_queue_put(i)
    \/ scope = "enrichment" /\ get_match
    \/ close
    \/ close_acquire

SideSpec == SideInit /\ [][SideNext]_vars

----------------------------------------------------------------------------
(* The two request functions under a clock.  A worker calls its request    *)
(* function whenever it likes; the clock runs for Horizon pacing intervals *)
(* of the endpoint.                                                        *)

wait_seconds(endpoint) ==
    IF endpoint = "dota" THEN dota_wait_seconds ELSE oapi_wait_seconds

Callers == IF scope = "feed" THEN {Poller} ELSE Fetchers

Deadline ==
    StartTime + Horizon * wait_seconds(IF scope = "feed" THEN "dota" ELSE "oapi")

\* time.time() advances
Tick ==
    /\ now < Deadline
    /\ now' = now + 1
    /\ UNCHANGED <<config, storeVars, otherVars, closeVars, feedVars, timerVars, lockVars, queueVars,
                   ctlVars, match, loop_holder, wake, last_dispatch>>

\* "await self._dapi_request( url )" and "await self._oapi_request( url )" in
\* the worker's for loop
request_call(w) ==
    /\ pc[w] = "start"
    /\ LoopFree
    /\ Goto(w, "lock", 0)
    /\ UNCHANGED <<config, storeVars, otherVars, closeVars, feedVars, timerVars, lockVars, queueVars,
                   match, loop_holder, clockVars>>

\* "res = await future_res": the response arrives and the function returns
request_return(w) ==
    /\ pc[w] = "await"
    /\ LoopFree
    /\ w \in dapi_inflight \cup oapi_inflight
    /\ dapi_inflight' = dapi_inflight \ {w}
    /\ oapi_inflight' = oapi_inflight \ {w}
    /\ dotaapi_lock' = IF w = Poller THEN NoTask ELSE dotaapi_lock
    /\ Goto(w, "start", 0)
    /\ UNCHANGED <<config, storeVars, otherVars, closeVars, feedVars, timerVars, oapi_lock, queueVars,
                   match, loop_holder, clockVars>>

\* the dispatch time of the endpoint's last request, if this step dispatches one
dispatch_log(endpoint, before, after) ==
    IF after \subseteq before THEN last_dispatch
    ELSE [last_dispatch EXCEPT ![endpoint] = now]

dapi_request ==
    /\ dapi_request_enter(Poller, dapi_too_soon, now + dapi_pace_delay)
    /\ last_dispatch' = dispatch_log("dota", dapi_inflight, dapi_inflight')

dapi_request_resume ==
    /\ dapi_request_wake(Poller)
    /\ last_dispatch' = dispatch_log("dota", dapi_inflight, dapi_inflight')

oapi_request(t) ==
    /\ oapi_request_enter(t, oapi_too_soon, now + oapi_pace_delay)
    /\ last_dispatch' = dispatch_log("oapi", oapi_inflight, oapi_inflight')

oapi_request_resume(t) ==
    /\ oapi_request_wake(t)
    /\ last_dispatch' = dispatch_log("oapi", oapi_inflight, oapi_inflight')

PaceNext ==
    \/ Tick
    \/ \E w \in Callers : request_call(w)
    \/ \E w \in Callers : request_return(w)
    \/ dapi_request
    \/ dapi_request_resume
    \/ \E t \in Fetchers : oapi_request(t)
    \/ \E t \in Fetchers : oapi_request_resume(t)

PaceSpec == SideInit /\ [][PaceNext]_vars

----------------------------------------------------------------------------
(* The operations of class Database, called from the threads of Threads.   *)
(* A thread that is not inside work_from_memory or work_from_file is       *)
(* "idle".  An operation that takes self.lock runs when the lock is free   *)
(* and, unless it raises past the release, frees it in the same step.      *)

apiVars == <<retry, scope, exit, processes, close_pc, close_i, seq_from, polls,
             dota_api_timers, open_api_timers, dotaapi_lock, oapi_lock,
             dapi_inflight, oapi_inflight, matches_queue, match_info_queue,
             pc, tries, exc, num_results, valid_matches, match_id, match,
             loop_holder, now, wake, last_dispatch>>

\* what `call` records of a finished call
Returned(op, g, result, value) ==
    [op |-> op, game |-> g, args |-> <<>>, result |-> result, at |-> 0,
     value |-> value]
Raised(op, g, at) ==
    [op |-> op, game |-> g, args |-> <<>>, result |-> "raised", at |-> at,
     value |-> <<>>]

\* db.rollback(): the transaction's writes are discarded (if it were left
\* out they would stay in the connection's open transaction)
rollback_omitted(committed, working) == working
rollback(committed, working) == committed

\* lines 184-186: the record is refused before the lock is taken and before
\* any statement (the variant writes it first)
invalid_game_written(g) ==
    /\ call' = Returned("commit_game", g, "False", <<>>)
    /\ write(execute(live, statements(games[g]), db.foreign_keys))
invalid_game(g) ==
    /\ call' = Returned("commit_game", g, "False", <<>>)
    /\ UNCHANGED <<files, memory>>

\* commit_game( game ) with game = games[g].  `at` is the statement at which
\* the storage fails: 0 for none, k for the k-th execute, one more than the
\* number of statements for db.commit()
commit_game(t, g, at) ==
    /\ db_pc[t] = "idle"
    /\ IF ~_valid_game(games[g])
       THEN at = 0 /\ invalid_game(g)
       ELSE /\ lock = NoThread
            /\ at \in 0..(Len(statements(games[g])) + 1)
            /\ LET stmts == statements(games[g])
                   done == IF at = 0 THEN stmts ELSE SubSeq(stmts, 1, at - 1)
                   working == execute(live, done, db.foreign_keys)
               IN  IF at = 0
                   THEN /\ write(working)
                        /\ call' = Returned("commit_game", g, "True", <<>>)
                   ELSE /\ write(rollback(live, working))
                        /\ call' = Raised("commit_game", g, at)
    /\ UNCHANGED <<apiVars, otherVars, db, in_memory, mem_only, lock, db_pc,
                   overwrite_original>>

\* the rows the SELECT of get_drafts joins.  SQLite walks hero_picks by its
\* primary-key index, so they come ordered by (match_id, hero)
joined(tables, starting_from) ==
    { [match_id |-> x[1].match_id, winner |-> x[1].winner,
       hero |-> x[2].hero, team |-> x[2].team] :
      x \in { y \in tables.match_info \X tables.hero_picks :
                /\ y[1].match_id = y[2].match_id
                /\ y[1].match_id >= starting_from } }

before(a, b) ==
    a.match_id < b.match_id \/ (a.match_id = b.match_id /\ a.hero < b.hero)

\* cursor.fetchall() under LIMIT limit
RECURSIVE fetchall(_, _)
fetchall(rows, limit) ==
    IF rows = {} \/ limit = 0 THEN <<>>
    ELSE LET first == CHOOSE a \in rows : \A b \in rows \ {a} : before(a, b)
         IN  <<first>> \o fetchall(rows \ {first}, limit - 1)

\* the heroes of the rows of match `id` whose team is (is not) the winner
picks_where(data, id, won) ==
    LET rows == SelectSeq(data, LAMBDA r :
                    r.match_id = id /\ ((r.team = r.winner) = won))
    IN  [k \in DOMAIN rows |-> rows[k].hero]

\* the tuple get_drafts returns, called with integers
drafts(tables, starting_from, limit) ==
    LET data == fetchall(joined(tables, Max(0, starting_from)),
                         rows_per_match * Max(1, limit))
        ids == {data[k].match_id : k \in DOMAIN data}
    IN  [max_id |-> IF ids = {} THEN 0
                    ELSE CHOOSE m \in ids : \A n \in ids : n <= m,
         num_results |-> Cardinality(ids),
         data |-> [id \in ids |->
                     [win_picks |-> picks_where(data, id, TRUE),
                      loss_picks |-> picks_where(data, id, FALSE)]]]

\* the statements of a transaction at which the storage may fail
Failures == 0..(1 + 2 * num_picks + 1)

StartingFrom == {0, 2}
Limits == {1, 2}

get_drafts(t, starting_from, limit) ==
    /\ db_pc[t] = "idle"
    /\ lock = NoThread
    /\ call' = [Returned("get_drafts", 0, "returned",
                         drafts(live, starting_from, limit))
                EXCEPT !.args = <<starting_from, limit>>]
    /\ UNCHANGED <<apiVars, otherVars, files, memory, db, in_memory, mem_only, lock,
                   db_pc, overwrite_original>>

\* raw_query( "DELETE FROM match_info WHERE match_id = <id>" )
raw_query(t, id) ==
    /\ db_pc[t] = "idle"
    /\ lock = NoThread
    /\ write(delete_match(live, id, db.foreign_keys))
    /\ call' = Returned("raw_query", id, "returned", <<>>)
    /\ UNCHANGED <<apiVars, otherVars, db, in_memory, mem_only, lock, db_pc,
                   overwrite_original>>

\* work_from_memory(), lines 136-138: the test of the mode, made without
\* the lock
work_from_memory(t) ==
    /\ db_pc[t] = "idle"
    /\ IF in_memory
       THEN /\ call' = Returned("work_from_memory", 0, "no-op", <<>>)
            /\ UNCHANGED db_pc
       ELSE /\ db_pc' = [db_pc EXCEPT ![t] = "work_from_memory"]
            /\ UNCHANGED call
    /\ UNCHANGED <<apiVars, otherVars, files, memory, db, in_memory, mem_only, lock,
                   overwrite_original>>

\* work_from_memory(), lines 140-154: dump the live database, close it and
\* load the dump into a new ":memory:" connection
work_from_memory_locked(t) ==
    /\ db_pc[t] = "work_from_memory"
    /\ lock = NoThread
    /\ memory' = Just(live)
    /\ db' = [path |-> in_memory_db, foreign_keys |-> FALSE]
    /\ in_memory' = TRUE
    /\ db_pc' = [db_pc EXCEPT ![t] = "idle"]
    /\ call' = Returned("work_from_memory", 0, "done", <<>>)
    /\ UNCHANGED <<apiVars, otherVars, files, mem_only, lock, overwrite_original>>

\* work_from_file( overwrite ), lines 157-159
work_from_file(t, overwrite) ==
    /\ db_pc[t] = "idle"
    /\ IF ~in_memory \/ mem_only
       THEN /\ call' = Returned("work_from_file", 0, "no-op", <<>>)
            /\ UNCHANGED <<db_pc, overwrite_original>>
       ELSE /\ db_pc' = [db_pc EXCEPT ![t] = "work_from_file"]
            /\ overwrite_original' = [overwrite_original EXCEPT ![t] = overwrite]
            /\ UNCHANGED call
    /\ UNCHANGED <<apiVars, otherVars, files, memory, db, in_memory, mem_only, lock>>

\* work_from_file(), lines 161-181: dump the live database, close it and run
\* the dump on database_dir.mem.  The dump creates both tables without IF
\* NOT EXISTS: on a file that has them executescript raises, past the
\* assignment of in_memory and past lock.release()
work_from_file_locked(t) ==
    /\ db_pc[t] = "work_from_file"
    /\ lock = NoThread
    /\ db_pc' = [db_pc EXCEPT ![t] = "idle"]
    /\ overwrite_original' = [overwrite_original EXCEPT ![t] = FALSE]
    /\ memory' = Null
    /\ IF files[mem_file] # Null
       THEN /\ db' = [path |-> mem_file, foreign_keys |-> FALSE]
            /\ lock' = t
            /\ call' = Raised("work_from_file", 0, 0)
            /\ UNCHANGED <<files, in_memory>>
       ELSE /\ IF overwrite_original[t]
               THEN /\ files' = [files EXCEPT ![database_dir] = Just(live),
                                              ![mem_file] = Null]
                    /\ db' = _load_database
               ELSE /\ files' = [files EXCEPT ![mem_file] = Just(live)]
                    /\ db' = [path |-> mem_file, foreign_keys |-> FALSE]
            /\ in_memory' = FALSE
            /\ call' = Returned("work_from_file", 0, "done", <<>>)
            /\ UNCHANGED lock
    /\ UNCHANGED <<apiVars, otherVars, mem_only>>

\* one Database object on a new file
Database(name) ==
    /\ scope = name
    /\ retry = TRUE
    /\ __init__
    /\ Database__init__
    /\ elsewhere

\* a single thread that uses every operation
StoreNext ==
    \/ \E g \in parsed : commit_game(1, g, 0)
    \/ \E starting_from \in StartingFrom, limit \in Limits :
           get_drafts(1, starting_from, limit)
    \/ \E id \in {1} : raw_query(1, id)
    \/ work_from_memory(1)
    \/ work_from_memory_locked(1)
    \/ \E overwrite \in BOOLEAN : work_from_file(1, overwrite)
    \/ work_from_file_locked(1)

StoreSpec == Database("store") /\ [][StoreNext]_vars

\* a single thread that commits records while the storage may fail, and
\* changes the mode; the records are two of match 1 and the refused ones
CommitNext ==
    \/ \E g \in DOMAIN games \ {3, 4}, at \in Failures : commit_game(1, g, at)
    \/ work_from_memory(1)
    \/ work_from_memory_locked(1)
    \/ \E overwrite \in BOOLEAN : work_from_file(1, overwrite)
    \/ work_from_file_locked(1)

CommitSpec == Database("commit") /\ [][CommitNext]_vars

\* two threads that change the mode while match 1 is committed
ThreadsNext ==
    \E t \in Threads :
        \/ commit_game(t, 1, 0)
        \/ work_from_memory(t)
        \/ work_from_memory_locked(t)
        \/ \E overwrite \in BOOLEAN : work_from_file(t, overwrite)
        \/ work_from_file_locked(t)

ThreadsSpec == Database("threads") /\ [][ThreadsNext]_vars

----------------------------------------------------------------------------
(* The pipeline under fair scheduling: the event loop runs every coroutine *)
(* that is ready, asyncio.Lock wakes its waiters in turn, every sleep ends *)
(* and every request returns; close() goes on acquiring.  Nothing obliges  *)
(* the consumer to call get_match.                                         *)

FairSpec ==
    /\ Spec
    /\ SF_vars(PollerNext)
    /\ \A t \in Fetchers : SF_vars(FetcherNext(t))
    /\ WF_vars(close_acquire)

----------------------------------------------------------------------------
(* Properties. *)

\* C1: at most one request per endpoint is in flight at any time, for the feed
\* endpoint and for the enrichment endpoint.
C1_one_in_flight ==
    /\ Cardinality(dapi_inflight) <= 1
    /\ Cardinality(oapi_inflight) <= 1

\* C2: a request is dispatched to an endpoint at least wait_seconds after the
\* request dispatched before it to that endpoint (for the feed: also after the
\* bootstrap request), and last_request is the dispatch time of the endpoint's
\* most recent request.
C2_paced ==
    /\ [](/\ last_dispatch.dota # NoTime =>
                dota_api_timers.last_request = last_dispatch.dota
          /\ last_dispatch.oapi # NoTime =>
                open_api_timers.last_request = last_dispatch.oapi)
    /\ [][/\ ~(dapi_inflight' \subseteq dapi_inflight) =>
                /\ now - (IF last_dispatch.dota = NoTime THEN StartTime
                          ELSE last_dispatch.dota) >= dota_wait_seconds
                /\ dota_api_timers'.last_request = now
          /\ ~(oapi_inflight' \subseteq oapi_inflight) =>
                /\ last_dispatch.oapi # NoTime =>
                      now - last_dispatch.oapi >= oapi_wait_seconds
                /\ open_api_timers'.last_request = now]_vars

\* C2 witness: both fetchers have a request in flight, the second dispatched
\* after the first by _oapi_request.
C2_witness ==
    /\ Cardinality(oapi_inflight) = 2
    /\ last_dispatch.oapi = open_api_timers.last_request
    /\ last_dispatch.oapi >= StartTime + oapi_wait_seconds

\* C3: a 404 from the enrichment API causes no backoff growth: the fetcher
\* that ends the sleep after a 404 leaves rate_limit_wait no larger.
C3_no_growth_on_404 ==
    [][\A t \in Fetchers :
          pc[t] = "sleep_404" /\ pc'[t] # "sleep_404" =>
             open_api_timers'.rate_limit_wait <= open_api_timers.rate_limit_wait]_vars

\* C4: while the poller is in its enqueue loop it either waits with the batch
\* untouched or queues the next ID of the batch: no ID is dropped, and the
\* loop is left only when every ID is queued.
C4_no_id_dropped ==
    [][pc[Poller] = "enqueue" =>
          \/ pc'[Poller] = "enqueue" /\ valid_matches' = valid_matches
          \/ /\ valid_matches' = Tail(valid_matches)
             /\ matches_queue' = Append(matches_queue, Head(valid_matches))]_vars

\* C5: whenever close() has returned, the poller and every fetcher have seen
\* the exit flag at the top of their loop and released their slot.
C5_close_waits_for_workers ==
    close_pc = "returned" => \A w \in Workers : pc[w] = "done"

\* C6: once close() has set the exit flag and every worker is in its loop,
\* every worker eventually exits and close() eventually returns.
C6_shutdown_completes ==
    (exit /\ \A w \in Workers : pc[w] \notin {"start", "acquire_wait"})
       ~> (close_pc = "returned" /\ \A w \in Workers : pc[w] = "done")

\* the errors that are fatal when retry_on_error is disabled
FatalErrors == {"ServiceNotAvailable", "InvalidAuthKey", "OAPIError"}

\* C7: with retry_on_error disabled, a worker that has raised a fatal error
\* is terminated: it takes no further step.
C7_fatal_terminates ==
    [][\A w \in Workers :
          ~retry /\ exc[w] \in FatalErrors =>
             pc'[w] = pc[w] /\ exc'[w] = exc[w]]_vars

penalty_due(w) ==
    /\ pc[w] \in {"sleep_404", "rl_sleep"}
    /\ pc'[w] # pc[w]

\* C9: for both endpoints rate_limit_wait is at least rate_limit_wait_base and
\* exceeds it by a multiple of wait_increment; the sleep after a non-200
\* response adds exactly wait_increment, a 200 response with data subtracts
\* wait_increment clamped at the base, and nothing else changes it.
C9_rate_limit_wait ==
    /\ [](\A timers \in {dota_api_timers, open_api_timers} :
             /\ timers.rate_limit_wait >= rate_limit_wait_base
             /\ (timers.rate_limit_wait - rate_limit_wait_base) % wait_increment = 0)
    /\ [][/\ dota_api_timers'.rate_limit_wait =
               IF penalty_due(Poller)
               THEN dota_api_timers.rate_limit_wait + wait_increment
               ELSE IF polls' # polls
               THEN Max(rate_limit_wait_base,
                        dota_api_timers.rate_limit_wait - wait_increment)
               ELSE dota_api_timers.rate_limit_wait
          /\ open_api_timers'.rate_limit_wait =
               IF \E t \in Fetchers : penalty_due(t)
               THEN open_api_timers.rate_limit_wait + wait_increment
               ELSE IF \E t \in Fetchers :
                          /\ pc[t] = "await"
                          /\ pc'[t] \notin {"await", "sleep_404", "rl_sleep"}
                          /\ exc'[t] # "OAPIError"
               THEN Max(rate_limit_wait_base,
                        open_api_timers.rate_limit_wait - wait_increment)
               ELSE open_api_timers.rate_limit_wait]_vars

\* C9 witness: a fetcher is at its second attempt, the sleep after the first
\* one having added wait_increment to the base.
C9_witness ==
    \E t \in Fetchers :
       /\ pc[t] = "lock"
       /\ tries[t] = 2
       /\ open_api_timers.rate_limit_wait = rate_limit_wait_base + wait_increment

\* C10: seq_from never decreases; it changes only on a 200 response with
\* k >= 1 matches, and then by exactly min(k, 100).
C10_cursor ==
    [][/\ seq_from' >= seq_from
       /\ polls' # polls =>
             /\ pc[Poller] = "await"
             /\ num_results' >= 1
             /\ seq_from' = seq_from + Min(num_results', requested)
       /\ polls' = polls => seq_from' = seq_from]_vars

\* C10 witness: a batch of requested + 1 matches has advanced seq_from by
\* requested.
C10_witness ==
    /\ num_results = requested + 1
    /\ seq_from = requested

----------------------------------------------------------------------------
(* Properties of the relational store. *)

\* the hero_picks rows of match `id`
picks_in(tables, id) == {p \in tables.hero_picks : p.match_id = id}

\* C11: every row of match_info has exactly 10 rows in hero_picks, 5 with
\* team 0 and 5 with team 1, carrying 10 distinct hero IDs
C11_ten_picks_per_match ==
    \A r \in live.match_info :
        LET picks == picks_in(live, r.match_id)
        IN  /\ Cardinality(picks) = 2 * num_picks
            /\ Cardinality({p \in picks : p.team = 0}) = num_picks
            /\ Cardinality({p \in picks : p.team = 1}) = num_picks
            /\ Cardinality({p.hero : p \in picks}) = 2 * num_picks

\* the rows a record leaves when it is committed to an empty store
rows_of(game) == execute(EmptyTables, statements(game), TRUE)

\* C12: after commit_game has returned True for a record, match_info holds
\* one row for its match_id, with the record's values, and the hero_picks
\* rows of that match_id are the record's picks and no others
C12_recommit_replaces ==
    (call.op = "commit_game" /\ call.result = "True") =>
        LET game == games[call.game]
            id == game.match_id.v
        IN  /\ {r \in live.match_info : r.match_id = id} = {match_row(game)}
            /\ picks_in(live, id) = picks_in(rows_of(game), id)

\* the data model of a match record: the ranges of its fields
DataModel(game) ==
    /\ game.match_id.type = "int" /\ game.match_id.v >= 0
    /\ game.match_time.type = "int" /\ game.match_time.v >= 0
    /\ game.winner.type = "int" /\ game.winner.v \in {0, 1}
    /\ game.duration.type = "int" /\ game.duration.v > 0
    /\ game.radiant_score.type = "int" /\ game.radiant_score.v >= 0
    /\ game.dire_score.type = "int" /\ game.dire_score.v >= 0
    /\ game.skill.type = "int" /\ game.skill.v \in {0, 1, 2, 3}
    /\ game.region.type = "int" /\ game.region.v >= 0
    /\ valid_picks(game.radiant_picks)
    /\ valid_picks(game.dire_picks)
    /\ game.salt.type \in {"NoneType", "int"}
    /\ game.throw.type \in {"NoneType", "int"}
    /\ game.loss.type \in {"NoneType", "int"}
    /\ \/ game.replay.type = "NoneType"
       \/ game.replay.type = "str" /\ slice(game.replay.v, 0, 4) = http

\* C13: commit_game returns True for exactly the records that satisfy the
\* data model, those with skill 0 included
C13_accepts_data_model ==
    (call.op = "commit_game" /\ call.result # "raised") =>
        ((call.result = "True") <=> DataModel(games[call.game]))

C15_failure_rolls_back ==
    [][(call'.op = "commit_game" /\ call'.result = "raised") =>
          /\ UNCHANGED <<files, memory, db, in_memory>>
          /\ lock' = NoThread]_vars

\* the upsert of the first radiant pick raised, after the match row and the
\* dire picks of a record that replaces a stored one
C15_witness ==
    /\ call.op = "commit_game"
    /\ call.result = "raised"
    /\ call.at = 1 + num_picks + 1
    /\ \E r \in live.match_info :
          r.match_id = games[call.game].match_id.v /\ r # match_row(games[call.game])

\* the match_ids of the stored matches from `starting_from` on
stored_from(tables, starting_from) ==
    {r.match_id : r \in {q \in tables.match_info : q.match_id >= starting_from}}

\* C16: get_drafts(starting_from, limit) returns the min(limit, number of
\* stored matches with match_id >= starting_from) matches with the smallest
\* such match_ids, each with all of its picks; num_results is their number
\* and max_id the largest of their match_ids
C16_get_drafts_pages ==
    (call.op = "get_drafts") =>
        LET stored == stored_from(live, call.args[1])
            expected == {id \in stored :
                            Cardinality({j \in stored : j < id}) < call.args[2]}
            data == call.value.data
        IN  /\ DOMAIN data = expected
            /\ call.value.num_results = Cardinality(expected)
            /\ \A id \in expected : call.value.max_id >= id
            /\ expected # {} => call.value.max_id \in expected
            /\ \A id \in DOMAIN data :
                  {data[id].win_picks[k] : k \in DOMAIN data[id].win_picks}
                  \cup {data[id].loss_picks[k] : k \in DOMAIN data[id].loss_picks}
                  = {p.hero : p \in picks_in(live, id)}

\* the heroes in a list of picks get_drafts returns
hero_set(picks) == {picks[k] : k \in DOMAIN picks}

\* C17: for every stored match that get_drafts returns, win_picks are the 5
\* heroes of the side that won in the record stored for it (radiant_picks
\* when winner = 1, dire_picks when winner = 0), loss_picks the 5 of the
\* other side
C17_win_loss_split ==
    (call.op = "get_drafts") =>
        \A id \in DOMAIN call.value.data, g \in parsed :
            (games[g].match_id.v = id /\ match_row(games[g]) \in live.match_info) =>
                LET won == IF games[g].winner.v = 1 THEN games[g].radiant_picks
                           ELSE games[g].dire_picks
                    lost == IF games[g].winner.v = 1 THEN games[g].dire_picks
                            ELSE games[g].radiant_picks
                    draft == call.value.data[id]
                IN  /\ Len(draft.win_picks) = num_picks
                    /\ Len(draft.loss_picks) = num_picks
                    /\ hero_set(draft.win_picks) = hero_set(heroes_of(won))
                    /\ hero_set(draft.loss_picks) = hero_set(heroes_of(lost))

\* C18: hero_picks never contains a row whose match_id has no row in
\* match_info, in whatever mode the store is
C18_no_orphan_picks ==
    \A p \in live.hero_picks : \E r \in live.match_info : r.match_id = p.match_id

\* C19: a mode transition (work_from_memory, work_from_file with or without
\* overwrite) leaves the live connection with the rows of both tables it had
\* before the transition
C19_transition_keeps_rows ==
    [][\A t \in Threads :
          (db_pc[t] \in {"work_from_memory", "work_from_file"}
           /\ db_pc'[t] = "idle") => live' = live]_vars

\* C20: a transition called in an invalid mode changes nothing, and the body
\* of a transition runs only while the mode its test saw still holds, so of
\* two threads that call the same transition one runs the body
C20_transitions_exclusive ==
    [][/\ call'.result = "no-op" => UNCHANGED <<files, memory, db, in_memory>>
       /\ \A t \in Threads :
            /\ (db_pc[t] = "work_from_memory" /\ db_pc'[t] = "idle")
                  => ~in_memory
            /\ (db_pc[t] = "work_from_file" /\ db_pc'[t] = "idle")
                  => (in_memory /\ ~mem_only)]_vars

----------------------------------------------------------------------------
(* work_from_file() statement by statement, for what the files hold while  *)
(* the original is being replaced.                                         *)

\* lines 161-171: take the lock, dump the in-memory database, close it and
\* load the dump into database_dir.mem
work_from_file_dump(t) ==
    /\ db_pc[t] = "work_from_file"
    /\ lock = NoThread
    /\ memory' = Null
    /\ db' = [path |-> mem_file, foreign_keys |-> FALSE]
    /\ IF files[mem_file] # Null
       THEN /\ lock' = t
            /\ db_pc' = [db_pc EXCEPT ![t] = "idle"]
            /\ overwrite_original' = [overwrite_original EXCEPT ![t] = FALSE]
            /\ call' = Raised("work_from_file", 0, 0)
            /\ UNCHANGED <<files, in_memory>>
       ELSE /\ files' = [files EXCEPT ![mem_file] = Just(live)]
            /\ IF overwrite_original[t]
               THEN /\ lock' = t
                    /\ db_pc' = [db_pc EXCEPT ![t] = "os.remove"]
                    /\ UNCHANGED <<in_memory, overwrite_original, call>>
               ELSE /\ in_memory' = FALSE
                    /\ db_pc' = [db_pc EXCEPT ![t] = "idle"]
                    /\ call' = Returned("work_from_file", 0, "done", <<>>)
                    /\ UNCHANGED <<lock, overwrite_original>>
    /\ UNCHANGED <<apiVars, otherVars, mem_only>>

\* lines 174-175: self.db.close(); os.remove( self.database_dir )
os_remove(t) ==
    /\ db_pc[t] = "os.remove"
    /\ files' = [files EXCEPT ![database_dir] = Null]
    /\ db_pc' = [db_pc EXCEPT ![t] = "os.rename"]
    /\ UNCHANGED <<apiVars, otherVars, memory, db, in_memory, mem_only, lock,
                   overwrite_original, call>>

\* line 176: os.rename( self.database_dir + ".mem", self.database_dir )
os_rename(t) ==
    /\ db_pc[t] = "os.rename"
    /\ files' = [files EXCEPT ![database_dir] = files[mem_file],
                                   ![mem_file] = Null]
    /\ db_pc' = [db_pc EXCEPT ![t] = "_load_database"]
    /\ UNCHANGED <<apiVars, otherVars, memory, db, in_memory, mem_only, lock,
                   overwrite_original, call>>

\* lines 177-181: self._load_database(); in_memory = False; lock.release()
work_from_file_load(t) ==
    /\ db_pc[t] = "_load_database"
    /\ db' = _load_database
    /\ in_memory' = FALSE
    /\ lock' = NoThread
    /\ db_pc' = [db_pc EXCEPT ![t] = "idle"]
    /\ overwrite_original' = [overwrite_original EXCEPT ![t] = FALSE]
    /\ call' = Returned("work_from_file", 0, "done", <<>>)
    /\ UNCHANGED <<apiVars, otherVars, files, memory, mem_only>>

\* a single thread that commits and moves the store between the modes
OverwriteNext ==
    \/ \E g \in parsed : commit_game(1, g, 0)
    \/ work_from_memory(1)
    \/ work_from_memory_locked(1)
    \/ \E overwrite \in BOOLEAN : work_from_file(1, overwrite)
    \/ work_from_file_dump(1)
    \/ os_remove(1)
    \/ os_rename(1)
    \/ work_from_file_load(1)

OverwriteSpec == Database("overwrite") /\ [][OverwriteNext]_vars

\* C21: during work_from_file( overwrite_original = True ) the original path
\* database_dir holds a complete database in every intermediate state, so a
\* crash at any step never leaves it missing
C21_original_always_present ==
    files[database_dir] # Null

----------------------------------------------------------------------------
(* _parse_match_history on its own: the argument is any batch of at most   *)
(* MaxBatch entries, each with one of the three constants off or none, and *)
(* with players whose leaver_status is 0, 1, another value or missing.     *)

MaxBatch == 2

FeedConstants == {<<7, 10, 22>>, <<0, 10, 22>>, <<7, 9, 22>>, <<7, 10, 1>>}
FeedPlayers ==
    { AllPresent,
      [AllPresent EXCEPT ![10] = Just(1)],
      [AllPresent EXCEPT ![1] = Just(2)],
      [AllPresent EXCEPT ![3] = Null],
      <<>> }
\* the entries carry their position in the batch as match_id
FeedEntries(id) ==
    { FeedMatch(id, c[1], c[2], c[3], leavers) :
          c \in FeedConstants, leavers \in FeedPlayers }
FeedArguments ==
    UNION { { b \in [1..n -> UNION {FeedEntries(id) : id \in 1..n}] :
                \A k \in 1..n : b[k].match_id = k } : n \in 0..MaxBatch }

FilterInit ==
    /\ scope = "_parse_match_history"
    /\ retry = TRUE
    /\ __init__
    /\ mem_only = FALSE
    /\ Database__init__
    /\ ReplayDownloader__init__
    /\ bootstrapped
    /\ arg \in FeedArguments
    /\ ret = Null

\* valid_matches = self._parse_match_history( matches )
_parse_match_history ==
    /\ scope = "_parse_match_history"
    /\ ret = Null
    /\ ret' = Just(parse_match_history(arg))
    /\ UNCHANGED <<apiVars, storeVars, replayVars, bootVars, arg>>

FilterSpec == FilterInit /\ [][_parse_match_history]_vars

\* what the filter has to let through
ranked_all_pick(i) ==
    /\ i.lobby_type = 7
    /\ i.human_players = 10
    /\ i.game_mode = 22
    /\ \A p \in DOMAIN i.players :
           i.players[p] # Null /\ i.players[p][1] \in {0, 1}

\* C22: the filter returns the ID of a match exactly when lobby_type = 7,
\* human_players = 10, game_mode = 22 and every player has a leaver_status
\* that is 0 or 1 (a match with a player without leaver_status is left out),
\* and the IDs returned are in the order of the batch
C22_filter ==
    ret # Null =>
        LET kept == SelectSeq(arg, ranked_all_pick)
        IN  ret[1] = [k \in 1..Len(kept) |-> kept[k].match_id]

C22_witness ==
    /\ ret = Just(<<2>>)
    /\ Len(arg) = 2
    /\ arg[1] = MissingLeaver(1)
    /\ arg[2] = RankedMatch(2)

----------------------------------------------------------------------------
(* _parse_match on its own.  The argument is a decoded body: one whose     *)
(* first player has any slot of 0..255 next to four or five players on     *)
(* each side, or one with a key left out, a null, or a constant off.       *)

Slots == 0..255
SideSizes == 4..5

\* the body of match 1 with other players, or with another value under a key
WithPlayers(players) ==
    [k \in DOMAIN GoodData(1) |->
        IF k = "players" THEN players ELSE GoodData(1)[k]]
With(key, value) ==
    [k \in DOMAIN GoodData(1) |-> IF k = key THEN value ELSE GoodData(1)[k]]

\* hero 1 in slot s, then nr players in slots below 128 and nd in slots above
SlotPlayers(s, nr, nd) ==
    <<[hero_id |-> 1, player_slot |-> s]>>
    \o [k \in 1..nr |-> [hero_id |-> 1 + k, player_slot |-> k]]
    \o [k \in 1..nd |-> [hero_id |-> 10 + k, player_slot |-> 128 + k]]

SlotBodies ==
    { WithPlayers(SlotPlayers(s, nr, nd)) :
          s \in Slots, nr \in SideSizes, nd \in SideSizes }

FieldBodies ==
    { GoodData(1),
      With("skill", Null),
      With("radiant_win", Null),
      With("radiant_win", Just(FALSE)),
      With("game_mode", 1),
      With("lobby_type", 0),
      With("human_players", 9),
      Without(With("game_mode", 1), "skill"),
      Without(GoodData(1), "players") }
    \cup { Without(GoodData(1), k) : k \in RequiredKeys }

ParseInit ==
    /\ scope = "_parse_match"
    /\ retry = TRUE
    /\ __init__
    /\ mem_only = FALSE
    /\ Database__init__
    /\ ReplayDownloader__init__
    /\ bootstrapped
    /\ arg \in SlotBodies \cup FieldBodies
    /\ ret = Null

\* match = self._parse_match( data, url ): the call returns or raises
_parse_match ==
    /\ scope = "_parse_match"
    /\ ret = Null
    /\ ret' = IF parse_match_raises(arg)
              THEN Just([raised |-> TRUE, value |-> Null])
              ELSE Just([raised |-> FALSE, value |-> parse_match(arg)])
    /\ UNCHANGED <<apiVars, storeVars, replayVars, bootVars, arg>>

ParseSpec == ParseInit /\ [][_parse_match]_vars

\* the heroes of the players of one side, by the value of the slot
heroes_where(players, dire) ==
    LET side == SelectSeq(players, LAMBDA p : (p.player_slot >= 128) = dire)
    IN  [k \in 1..Len(side) |-> side[k].hero_id]

\* C23: for every player_slot in 0..255 the hero goes to radiant_picks when
\* the slot is below 128 (first of its 8 bits 0) and to dire_picks when it
\* is 128 or more; a record is returned only when each side has exactly 5
\* heroes, and None otherwise
C23_slot_sides ==
    (ret # Null /\ arg \in SlotBodies) =>
        LET rad == heroes_where(arg.players, FALSE)
            dire == heroes_where(arg.players, TRUE)
            value == ret[1].value
        IN  /\ ~ret[1].raised
            /\ (value # Null) <=> (Len(rad) = 5 /\ Len(dire) = 5)
            /\ value # Null =>
                  /\ value[1].radiant_picks = rad
                  /\ value[1].dire_picks = dire

C23_witness ==
    /\ ret # Null
    /\ arg \in SlotBodies
    /\ arg.players[1].player_slot = 128
    /\ ret[1].value # Null
    /\ ret[1].value[1].dire_picks[1] = 1
    /\ Len(ret[1].value[1].radiant_picks) = 5

\* a body the parser has to drop: one of the fields of the first block is
\* missing or null where a value is converted, a constant is off, or the
\* players (none, if the body has none) are not five on each side
dropped(data) ==
    \/ \E k \in RequiredKeys : ~Has(data, k)
    \/ data.radiant_win = Null
    \/ data.game_mode # 22 \/ data.lobby_type # 7 \/ data.human_players # 10
    \/ ~Has(data, "players")
    \/ Len(heroes_where(data.players, FALSE)) # 5
    \/ Len(heroes_where(data.players, TRUE)) # 5

\* C24: _parse_match returns for every body, None exactly for a body that
\* has to be dropped and a record otherwise; the record of a body with
\* skill = null has skill = 0
C24_parse_or_drop ==
    ret # Null =>
        /\ ~ret[1].raised
        /\ (ret[1].value = Null) <=> dropped(arg)
        /\ (~dropped(arg) /\ arg.skill = Null) => ret[1].value[1].skill = 0

----------------------------------------------------------------------------
(* The replay downloader: one coroutine _process that takes jobs from      *)
(* self.queue.  The pacing of _request (self.rate seconds between two      *)
(* requests) and the heartbeat are left out: they change neither the       *)
(* penalty nor the number of requests.  A wait on the empty queue that     *)
(* times out restarts the loop in the same state.                          *)

tries_per_job == 5
ReplayStatusCodes == {200, 404, 429, 500}

\* line 69 (the variant has no floor)
replay_relax_unfloored == rate_additional - rate
replay_relax == Max(rate_additional - rate, rate_additional_base)

\* line 66 (the variant keeps the count)
tries_kept == replay_tries
tries_decrement == replay_tries - 1

\* add_game( game ): put_nowait on the unbounded queue
add_game(id) ==
    /\ id = replay_added + 1
    /\ replay_added' = id
    /\ queue' = Append(queue, id)
    /\ UNCHANGED <<apiVars, storeVars, parseVars, bootVars, rate_additional, replays,
                   replay_pc, replay_job, replay_tries, replay_status,
                   replay_requests, replay_written>>

\* lines 44 and 49: a job is taken; tries = 5
replay_get ==
    /\ replay_pc = "get"
    /\ queue # <<>>
    /\ replay_job' = Head(queue)
    /\ queue' = Tail(queue)
    /\ replay_tries' = tries_per_job
    /\ replay_pc' = "request"
    /\ UNCHANGED <<apiVars, storeVars, parseVars, bootVars, rate_additional, replays,
                   replay_status, replay_added, replay_requests,
                   replay_written>>

\* lines 51-63 and 69-74: a request and its response.  200 writes the file,
\* 200 and 404 relax the penalty and end the job; any other status sleeps
replay_response(status_code) ==
    /\ replay_pc = "request"
    /\ replay_requests' = [replay_requests EXCEPT ![replay_job] = @ + 1]
    /\ replay_status' = status_code
    /\ IF status_code = 200 \/ status_code = 404
       THEN /\ replay_written' =
                  IF status_code = 200
                  THEN [replay_written EXCEPT ![replay_job] = @ + 1]
                  ELSE replay_written
            /\ replays' = IF status_code = 200 THEN replays + 1 ELSE replays
            /\ rate_additional' = replay_relax
            /\ replay_pc' = "get"
            /\ replay_job' = 0
            /\ replay_tries' = 0
       ELSE /\ replay_pc' = "sleep"
            /\ UNCHANGED <<replay_written, replays, rate_additional,
                           replay_job, replay_tries>>
    /\ UNCHANGED <<apiVars, storeVars, parseVars, bootVars, queue, replay_added>>

\* lines 64-67 after the sleep, and 72-74 when no try is left
replay_sleep_wake ==
    /\ replay_pc = "sleep"
    /\ rate_additional' = rate_additional + rate
    /\ IF tries_decrement > 0
       THEN /\ replay_tries' = tries_decrement
            /\ replay_pc' = "request"
            /\ UNCHANGED replay_job
       ELSE /\ replay_tries' = 0
            /\ replay_pc' = "get"
            /\ replay_job' = 0
    /\ UNCHANGED <<apiVars, storeVars, parseVars, bootVars, queue, replays,
                   replay_status, replay_added, replay_requests,
                   replay_written>>

\* lines 76-78: requests.get raises (no connection): the job is given up
replay_request_raises ==
    /\ replay_pc = "request"
    /\ replay_requests' = [replay_requests EXCEPT ![replay_job] = @ + 1]
    /\ replay_status' = 0
    /\ replay_pc' = "fatal_sleep"
    /\ replay_job' = 0
    /\ replay_tries' = 0
    /\ UNCHANGED <<apiVars, storeVars, parseVars, bootVars, queue, rate_additional,
                   replays, replay_added, replay_written>>

\* line 79, and the loop starts again
replay_fatal_wake ==
    /\ replay_pc = "fatal_sleep"
    /\ replay_pc' = "get"
    /\ UNCHANGED <<apiVars, storeVars, parseVars, bootVars, queue, rate_additional,
                   replays, replay_job, replay_tries, replay_status,
                   replay_added, replay_requests, replay_written>>

_process ==
    \/ replay_get
    \/ \E status_code \in ReplayStatusCodes : replay_response(status_code)
    \/ replay_sleep_wake
    \/ replay_request_raises
    \/ replay_fatal_wake

ReplayNext ==
    \/ \E id \in Jobs : add_game(id)
    \/ _process

ReplaySpec == Database("_replay") /\ [][ReplayNext]_vars

\* a step in which a response with this status arrives
responds(codes) ==
    /\ replay_requests' # replay_requests
    /\ replay_status' \in codes

\* a step in which the sleep of line 64 ends
wakes == replay_pc = "sleep" /\ replay_pc' # "sleep"

----------------------------------------------------------------------------
(* The constructor from its call of _get_current_seq_num (line 56) on.     *)
(* Until lines 58-66 have run the object has no queue, lock or semaphore,  *)
(* and run() cannot be called on it: those variables are Unset.  After a   *)
(* successful bootstrap the poller runs, with seq_from counted from        *)
(* boot_seq.                                                               *)

Unset == "unset"

BootStatusCodes == {200, 403, 429, 503}
\* result.matches of the response to matches_requested = 1
BootMatches ==
    { <<>> } \cup { <<[match_seq_num |-> n]>> : n \in SeqNums }
    \cup { <<[match_seq_num |-> 7], [match_seq_num |-> 4]>> }

\* API( key, retry_on_error ) has reached line 56
BootInit ==
    /\ scope = "bootstrap"
    /\ retry \in BOOLEAN
    /\ exit = Unset /\ processes = Unset
    /\ close_pc = Unset /\ close_i = Unset
    /\ seq_from = Unset /\ polls = Unset
    /\ dota_api_timers = Unset /\ open_api_timers = Unset
    /\ dotaapi_lock = Unset /\ oapi_lock = Unset
    /\ dapi_inflight = Unset /\ oapi_inflight = Unset
    /\ matches_queue = Unset /\ match_info_queue = Unset
    /\ pc = Unset /\ tries = Unset /\ exc = Unset
    /\ num_results = Unset /\ valid_matches = Unset
    /\ match_id = Unset /\ match = Unset
    /\ loop_holder = Unset
    /\ now = Unset /\ wake = Unset /\ last_dispatch = Unset
    /\ mem_only = FALSE
    /\ Database__init__
    /\ not_parsing
    /\ ReplayDownloader__init__
    /\ boot_pc = "request"
    /\ boot_requests = 0
    /\ boot_r = NoResponse
    /\ boot_seq = 0

\* lines 91-96 and 58-66: the assignments that lead to the state __init__
construct ==
    /\ exit' = FALSE
    /\ processes' = num_oapi_threads + 1
    /\ close_pc' = "idle"
    /\ close_i' = 0
    /\ seq_from' = 0
    /\ polls' = 0
    /\ now' = StartTime
    /\ dota_api_timers' = [last_request |-> StartTime,
                          rate_limit_wait |-> rate_limit_wait_base]
    /\ open_api_timers' = [last_request |-> 0,
                          rate_limit_wait |-> rate_limit_wait_base]
    /\ dotaapi_lock' = NoTask
    /\ oapi_lock' = NoTask
    /\ dapi_inflight' = {}
    /\ oapi_inflight' = {}
    /\ matches_queue' = <<>>
    /\ match_info_queue' = <<>>
    /\ pc' = [w \in Workers |-> "start"]
    /\ tries' = [w \in Workers |-> 0]
    /\ exc' = [w \in Workers |-> "none"]
    /\ num_results' = 0
    /\ valid_matches' = <<>>
    /\ match_id' = [t \in Fetchers |-> 0]
    /\ match' = [t \in Fetchers |-> Null]
    /\ loop_holder' = NoTask
    /\ wake' = [w \in Workers |-> NoTime]
    /\ last_dispatch' = [dota |-> NoTime, oapi |-> NoTime]

\* the for loop of line 79 goes on (the variant allows one request more)
boot_again_once_more == boot_requests <= max_retry
boot_again == boot_requests < max_retry

\* lines 80-85 and 91-97 with 58-66: the request returns.  A 200 leaves the
\* loop; its first match gives seq_from and the constructor completes, and
\* without a match [0] raises IndexError
boot_response(status_code, matches) ==
    /\ boot_pc = "request"
    /\ boot_requests' = boot_requests + 1
    /\ boot_r' = [status_code |-> status_code, matches |-> matches]
    /\ UNCHANGED <<config, storeVars, parseVars, replayVars>>
    /\ IF status_code # 200
       THEN /\ boot_pc' = "sleep"
            /\ UNCHANGED <<closeVars, feedVars, timerVars, lockVars, queueVars,
                           processes, pc, tries, exc, match_id, match,
                           loop_holder, clockVars, boot_seq>>
       ELSE IF matches = <<>>
       THEN /\ boot_pc' = "IndexError"
            /\ UNCHANGED <<closeVars, feedVars, timerVars, lockVars, queueVars,
                           processes, pc, tries, exc, match_id, match,
                           loop_holder, clockVars, boot_seq>>
       ELSE /\ boot_pc' = "done"
            /\ boot_seq' = matches[1].match_seq_num
            /\ construct

\* line 80: requests.get raises; nothing in the constructor catches it
boot_request_raises ==
    /\ boot_pc = "request"
    /\ boot_requests' = boot_requests + 1
    /\ boot_pc' = "raised"
    /\ UNCHANGED <<apiVars, storeVars, parseVars, replayVars, boot_r, boot_seq>>

\* lines 84-89: after the sleep the loop goes on or, at its end, the else
\* branch raises CouldNotInit
boot_sleep_wake ==
    /\ boot_pc = "sleep"
    /\ boot_pc' = IF boot_again THEN "request" ELSE "CouldNotInit"
    /\ UNCHANGED <<apiVars, storeVars, parseVars, replayVars, boot_requests,
                   boot_r, boot_seq>>

_get_current_seq_num ==
    \/ \E status_code \in BootStatusCodes, matches \in BootMatches :
           boot_response(status_code, matches)
    \/ boot_request_raises
    \/ boot_sleep_wake

\* the constructor, then run() with the poller and a consumer of its queue
BootNext ==
    \/ _get_current_seq_num
    \/ boot_pc = "done" /\ PollerNext
    \/ boot_pc = "done" /\ matches_queue_get

BootSpec == BootInit /\ [][BootNext]_vars

\* no queue, lock, semaphore or worker exists
nothing_created ==
    /\ matches_queue = Unset /\ match_info_queue = Unset
    /\ dotaapi_lock = Unset /\ oapi_lock = Unset
    /\ processes = Unset
    /\ pc = Unset

\* C27: the bootstrap sends at most max_retry requests; when all of them
\* have returned another status than 200 the constructor raises
\* CouldNotInit, and as long as the bootstrap has not succeeded, and for
\* ever once it has failed, no queue, lock or worker exists; the
\* constructor completes only on a 200, with the state of __init__ and with
\* seq_from the match_seq_num of the first match of that response
C27_bootstrap ==
    /\ [](boot_requests <= max_retry)
    /\ [](boot_pc # "done" => nothing_created)
    /\ [](boot_pc = "CouldNotInit" =>
             (boot_requests = max_retry /\ boot_r.status_code # 200))
    /\ [][/\ (boot_pc = "sleep" /\ boot_requests = max_retry)
               => boot_pc' = "CouldNotInit"
          /\ boot_pc \in {"CouldNotInit", "IndexError", "raised"}
               => UNCHANGED vars
          /\ (boot_pc # "done" /\ boot_pc' = "done") =>
                /\ boot_r'.status_code = 200
                /\ boot_seq' = boot_r'.matches[1].match_seq_num
                /\ __init__'
          /\ boot_seq' # boot_seq => boot_pc # "done"]_vars

C27_witness ==
    /\ boot_pc = "done"
    /\ boot_requests = max_retry
    /\ boot_r.matches = <<[match_seq_num |-> 7], [match_seq_num |-> 4]>>
    /\ boot_seq = 7
    /\ seq_from > 0

----------------------------------------------------------------------------
\* C28: a fetcher that waits to put its record into the full
\* match_info_queue is suspended on its own: it does not keep the thread of
\* the event loop, so the poller and the other fetchers can take steps
\* during the wait
C28_put_wait_is_suspension ==
    \A t \in Fetchers : pc[t] = "put_wait" => LoopFree

\* C29: an empty 200 response is not a failed attempt: when the poller
\* wakes from the sleep after it, with no penalty since the last batch (all
\* responses since then were empty), it requests again; it neither enters
\* the cooldown after max_retry failures nor raises ServiceNotAvailable,
\* and rate_limit_wait is as before
C29_empty_is_no_failure ==
    [][(/\ pc[Poller] = "empty_sleep"
        /\ pc'[Poller] # "empty_sleep"
        /\ dota_api_timers.rate_limit_wait = rate_limit_wait_base)
          => /\ pc'[Poller] \notin {"error_sleep", "fatal_sleep"}
             /\ exc'[Poller] = "none"
             /\ dota_api_timers'.rate_limit_wait = rate_limit_wait_base]_vars

\* steps of fetcher t: a request is dispatched, the sleep after a non-200
\* response ends, a response arrives
dispatches(t) == t \in oapi_inflight' /\ t \notin oapi_inflight
sleep_ends(t) == pc[t] \in {"sleep_404", "rl_sleep"} /\ pc'[t] # pc[t]
answered(t) == pc[t] = "await" /\ pc'[t] # "await"

\* C30: for the ID a fetcher has dequeued it dispatches one request per
\* attempt and makes at most max_retry attempts; a new attempt follows only
\* the sleep after a non-200 response, so the first 200 ends the retries,
\* and its body is parsed; after the max_retry-th non-200 response the ID
\* is dropped: the fetcher is back at the queue (or has left on exit), the
\* ID is in neither queue; a record enters match_info_queue only from the
\* fetcher that parsed it, which then holds no ID, so an ID yields at most
\* one record
C30_retries_per_id ==
    /\ [](\A t \in Fetchers : tries[t] <= max_retry)
    /\ [][\A t \in Fetchers :
            /\ dispatches(t) =>
                  /\ pc[t] \in {"lock", "pace"} /\ pc'[t] = "await"
                  /\ tries[t] \in 1..max_retry /\ tries'[t] = tries[t]
                  /\ match_id'[t] = match_id[t]
            /\ (pc'[t] = "lock" /\ pc[t] # "lock") =>
                  /\ tries'[t] = tries[t] + 1
                  /\ pc[t] = "get" \/ (sleep_ends(t) /\ match_id'[t] = match_id[t])
            /\ answered(t) =>
                  /\ t \in oapi_inflight /\ t \notin oapi_inflight'
                  /\ pc'[t] \in {"sleep_404", "rl_sleep", "fatal_sleep", "put",
                                 "get", "done"}
                  /\ pc'[t] = "put" =>
                        /\ match'[t] # Null
                        /\ match'[t][1].match_id = match_id[t]
            /\ (pc'[t] = "put" /\ pc[t] # "put") => answered(t)
            /\ (sleep_ends(t) /\ tries[t] = max_retry) =>
                  /\ pc'[t] \in {"get", "done"}
                  /\ match_id'[t] = 0
                  /\ UNCHANGED queueVars
            /\ (sleep_ends(t) /\ tries[t] < max_retry) => pc'[t] = "lock"]_vars
    /\ [][Len(match_info_queue') > Len(match_info_queue)
            => \E t \in Fetchers :
                  /\ pc[t] \in {"put", "put_wait"}
                  /\ match_info_queue' = Append(match_info_queue, match[t][1])
                  /\ match[t][1].match_id = match_id[t]
                  /\ pc'[t] \in {"get", "done"}
                  /\ match_id'[t] = 0
                  /\ match'[t] = Null]_vars

\* C30 witness: with retries enabled fetcher 0, alone, has dropped an ID after max_retry non-200
\* responses in a row (the penalty is max_retry steps above the base) and
\* waits for the next one; nothing was put on match_info_queue
C30_witness ==
    /\ scope = "enrichment"
    /\ retry
    /\ pc[0] = "get"
    /\ pc[1] = "start"
    /\ match_id[0] = 0
    /\ open_api_timers.rate_limit_wait =
          rate_limit_wait_base + max_retry * wait_increment
    /\ match_info_queue = <<>>

----------------------------------------------------------------------------
\* C31: the store lock is released at the end of every operation, also of
\* one that fails with an exception: no thread whose call has returned or
\* raised holds self.lock, so a later caller is not blocked for ever
C31_lock_released ==
    \A t \in Threads : db_pc[t] = "idle" => lock # t

----------------------------------------------------------------------------
(* Iteration over the store with the cursor of get_drafts: each call       *)
(* starts from the max_id of the previous one plus 1, until a call returns *)
(* no match.  The value is the sequence of the match_ids yielded.  The     *)
(* store does not change during the loop.                                  *)

\* the elements of a set of integers in ascending order (the order of a
\* dict filled from the rows, which come by match_id)
RECURSIVE ascending(_)
ascending(ids) ==
    IF ids = {} THEN <<>>
    ELSE LET least == CHOOSE m \in ids : \A n \in ids : m <= n
         IN  <<least>> \o ascending(ids \ {least})

\* the loop; first_only is __iter__, which yields match[0] of each call
RECURSIVE cursor_loop(_, _, _, _)
cursor_loop(tables, match_id_start, limit, first_only) ==
    LET page == drafts(tables, match_id_start, limit)
        matches == ascending(DOMAIN page.data)
    IN  IF page.num_results = 0 THEN <<>>
        ELSE (IF first_only THEN <<matches[1]>> ELSE matches)
             \o cursor_loop(tables, page.max_id + 1, limit, first_only)

\* list( iter( database ) ): lines 37-45, get_drafts with limit = 1
__iter__(t) ==
    /\ db_pc[t] = "idle"
    /\ lock = NoThread
    /\ call' = [Returned("__iter__", 0, "returned",
                         cursor_loop(live, 0, 1, TRUE))
                EXCEPT !.args = <<0, 1>>]
    /\ UNCHANGED <<apiVars, otherVars, files, memory, db, in_memory, mem_only,
                   lock, db_pc, overwrite_original>>

\* the same loop over whole pages, as a caller with a batch size writes it
get_drafts_until_empty(t, limit) ==
    /\ db_pc[t] = "idle"
    /\ lock = NoThread
    /\ call' = [Returned("get_drafts_until_empty", 0, "returned",
                         cursor_loop(live, 0, limit, FALSE))
                EXCEPT !.args = <<0, limit>>]
    /\ UNCHANGED <<apiVars, otherVars, files, memory, db, in_memory, mem_only,
                   lock, db_pc, overwrite_original>>

\* a single thread that commits parsed records and iterates
IterNext ==
    \/ \E g \in parsed : commit_game(1, g, 0)
    \/ __iter__(1)
    \/ \E limit \in Limits : get_drafts_until_empty(1, limit)

IterSpec == Database("iterate") /\ [][IterNext]_vars

\* C32: the cursor loop, with any batch size and as __iter__ with batch
\* size 1, yields every stored match exactly once, in ascending order of
\* match_id
C32_iteration_complete ==
    (call.op \in {"__iter__", "get_drafts_until_empty"}) =>
        LET stored == stored_from(live, 0)
            yielded == call.value
        IN  /\ Len(yielded) = Cardinality(stored)
            /\ {yielded[k] : k \in DOMAIN yielded} = stored
            /\ \A j, k \in DOMAIN yielded : j < k => yielded[j] < yielded[k]

====
